---- MODULE Spec2Model ----
(***************************************************************************)
(* State-machine model of the paper-trading toolkit (trading_algo):        *)
(*   - broker/base.py   order requests and their validation                *)
(*   - broker/sim.py    SimBroker                                          *)
(*   - llm/tools.py     dispatch_tool and the allow-list                   *)
(*   - broker/ibkr.py   IBKRBroker.connect and the paper-account guard     *)
(*   - cli.py           the order-placing commands and their safety gates  *)
(*   - backtest/broker.py  BacktestBroker (bar-by-bar fill engine)         *)
(* Each sub-system has its own variables and its own specification; the    *)
(* variables of the other sub-systems stay at their initial values.        *)
(* Python exceptions are modelled as results of the form [raised |-> kind] *)
(* with kind one of                                                        *)
(*   "NotConnected"  RuntimeError("Broker is not connected")               *)
(*   "NotFound"      KeyError                                              *)
(*   "InvalidInput"  ValueError                                            *)
(*   "ToolError"     llm.tools.ToolError                                   *)
(* Prices and quantities are integers (the code uses floats).              *)
(***************************************************************************)
EXTENDS Integers, Sequences, FiniteSets, TLC

VARIABLES
    \* ---- SimBroker (broker/sim.py)
    sim_connected,      \* SimBroker.connected
    sim_orders,         \* SimBroker.orders: list of accepted OrderRequest
    sim_statuses,       \* SimBroker._statuses: order id -> OrderStatus
    sim_uuid,           \* number of uuid4() values drawn so far
    sim_ret,            \* the last SimBroker call: operation, arguments, result
    \* ---- BacktestBroker (backtest/broker.py)
    bt_instrument,      \* BacktestBroker.instrument
    bt_fill_model,      \* BacktestBroker.fill_model
    bt_connected,       \* BacktestBroker.connected
    bt_i,               \* BacktestBroker._i: the number of bars stepped through
    bt_cash,            \* BacktestBroker._cash
    bt_qty,             \* BacktestBroker._qty
    bt_avg_cost,        \* BacktestBroker._avg_cost: Nil or a fraction <<n, d>>
    bt_orders,          \* BacktestBroker._orders: order id -> OrderRequest
    bt_statuses,        \* BacktestBroker._statuses: order id -> OrderStatus
    bt_open,            \* BacktestBroker._open: set of order ids
    bt_ret,             \* the last BacktestBroker call: operation, arguments, result
    \* ---- IBKRBroker (broker/ibkr.py)
    ib_require_paper,   \* IBKRBroker.require_paper
    ib_factory,         \* IBKRBroker.ib_factory is injected (TRUE) or None (FALSE)
    ib_handle,          \* IBKRBroker._ib is set (TRUE) or None (FALSE)
    ib_session,         \* the gateway session of the IB object is connected
    ib_pc,              \* position inside connect(): "idle" or "paper_check"
    ib_polls,           \* managedAccounts() calls made by the paper check of the
                        \* connect() that is running or was the last call
    ib_accounts,        \* the accounts list that paper check holds
    ib_trades,          \* IBKRBroker._trades: order id -> trade
    ib_contracts,       \* IBKRBroker._contracts: order id -> contract
    ib_gateway,         \* the trades the IB object knows: orderId -> trade
    ib_next_id,         \* the next orderId the client hands out
    ib_calls,           \* the requests the last call sent to the gateway
    ib_ret,             \* the last IBKRBroker call: operation and result
    \* ---- the command line (cli.py, llm/chat.py main)
    cli_cmd,            \* the command that ran, "none" between two commands
    cli_env,            \* TradingConfig.from_env() as the command read it
    cli_args,           \* the parsed arguments
    cli_cfg,            \* the TradingConfig in effect after the overrides
    cli_broker,         \* the broker object the command constructed
    cli_calls,          \* the calls made on the broker and the audit store, in order
    cli_exit,           \* "0", "SystemExit" (refusal) or "error" (exception)
    \* ---- the tool dispatcher in a chat session (llm/tools.py, llm/chat.py)
    tl_trading,         \* ChatSession.trading
    tl_confirm_token,   \* ChatSession.confirm_token
    tl_allowed_kinds,   \* LLMConfig.allowed_kinds()
    tl_allowed_symbols, \* LLMConfig.allowed_symbols()
    tl_broker,          \* ChatSession.broker: the state of a SimBroker
    tl_call,            \* the last tool call dispatched
    tl_events,          \* what that dispatch called, in order
    tl_ret,             \* what that dispatch returned or raised
    \* ---- one call of a function of backtest/ or llm/chat_protocol.py
    fn_args,            \* the arguments of the call
    fn_ret              \* Pending, or what the call returned or raised

simVars == <<sim_connected, sim_orders, sim_statuses, sim_uuid, sim_ret>>

btVars == <<bt_instrument, bt_fill_model, bt_connected, bt_i, bt_cash, bt_qty, bt_avg_cost,
            bt_orders, bt_statuses, bt_open, bt_ret>>

ibVars == <<ib_require_paper, ib_factory, ib_handle, ib_session, ib_pc, ib_polls, ib_accounts,
            ib_trades, ib_contracts, ib_gateway, ib_next_id, ib_calls, ib_ret>>

cliVars == <<cli_cmd, cli_env, cli_args, cli_cfg, cli_broker, cli_calls, cli_exit>>

tlVars == <<tl_trading, tl_confirm_token, tl_allowed_kinds, tl_allowed_symbols, tl_broker,
            tl_call, tl_events, tl_ret>>

fnVars == <<fn_args, fn_ret>>

vars == <<simVars, btVars, ibVars, cliVars, tlVars, fnVars>>

\* What a component leaves alone: the variables of the other components
exceptSim == <<btVars, ibVars, cliVars, tlVars, fnVars>>

exceptBt == <<simVars, ibVars, cliVars, tlVars, fnVars>>

exceptIb == <<simVars, btVars, cliVars, tlVars, fnVars>>

exceptCli == <<simVars, btVars, ibVars, tlVars, fnVars>>

exceptTools == <<simVars, btVars, ibVars, cliVars, fnVars>>

exceptFn == <<simVars, btVars, ibVars, cliVars, tlVars>>

-----------------------------------------------------------------------------
(* Common values *)

None == "None"

\* An optional number (float | None): Nil is Python's None, Some(x) the number x
Nil == <<>>

Some(x) == <<x>>

Val(opt) == opt[1]

\* An argument a call does not take
NoArg == [absent |-> TRUE]

Raise(kind) == [raised |-> kind]

IsRaised(v) == DOMAIN v = {"raised"}

Last(s) == s[Len(s)]

\* The largest number of requests kept in SimBroker.orders
MaxSimOrders == 2

\* The largest number of uuid4() draws of one SimBroker
MaxUuid == 3

\* The number of single orders placed with one BacktestBroker (a bracket,
\* three orders at once, is placed on an empty book only)
MaxBtOrders == 1

-----------------------------------------------------------------------------
(* str.strip() and str.upper(), on the strings the model draws *)

strip(s) ==
    CASE s = " buy" -> "buy"
      [] s = " lmt " -> "lmt"
      [] s = " tsla" -> "tsla"
      [] s = " snapshot " -> "snapshot"
      [] s = "  " -> ""
      [] OTHER -> s

upper(s) ==
    CASE s = "buy" -> "BUY"
      [] s = " buy" -> " BUY"
      [] s = "sell" -> "SELL"
      [] s = "hold" -> "HOLD"
      [] s = "mkt" -> "MKT"
      [] s = "lmt" -> "LMT"
      [] s = "day" -> "DAY"
      [] s = "stk" -> "STK"
      [] s = "fut" -> "FUT"
      [] s = "opt" -> "OPT"
      [] s = "aapl" -> "AAPL"
      [] s = "tsla" -> "TSLA"
      [] s = "usd" -> "USD"
      [] OTHER -> s

-----------------------------------------------------------------------------
(* trading_algo.instruments (not among the sources; modelled from the      *)
(* specification, sections 3 and 4.1)                                      *)

InstrumentSpec(kind, symbol) ==
    [kind |-> kind, symbol |-> symbol, exchange |-> None, currency |-> None,
     expiry |-> None]

validate_instrument(inst) ==
    LET kind == upper(inst.kind)
        symbol == upper(inst.symbol)
    IN  IF kind \notin {"STK", "FUT", "FX"} THEN Raise("InvalidInput")
        ELSE IF symbol = "" THEN Raise("InvalidInput")
        ELSE IF kind = "FUT" /\ inst.expiry = None THEN Raise("InvalidInput")
        ELSE [kind |-> kind,
              symbol |-> symbol,
              exchange |-> IF inst.exchange # None THEN inst.exchange
                           ELSE IF kind = "STK" THEN "SMART"
                           ELSE IF kind = "FX" THEN "IDEALPRO"
                           ELSE None,
              currency |-> IF inst.currency # None THEN upper(inst.currency)
                           ELSE IF kind \in {"STK", "FUT"} THEN "USD"
                           ELSE None,
              expiry |-> inst.expiry]

-----------------------------------------------------------------------------
(* broker/base.py: OrderRequest *)

OrderRequest(instrument, side, quantity, order_type, limit_price, stop_price, tif, good_till_date) ==
    [instrument |-> instrument, side |-> side, quantity |-> quantity,
     order_type |-> order_type, limit_price |-> limit_price,
     stop_price |-> stop_price, tif |-> tif, outside_rth |-> FALSE,
     good_till_date |-> good_till_date, account |-> None, order_ref |-> None,
     oca_group |-> None, transmit |-> TRUE]

\* `x.strip() if x else None`
strip_or_none(x) == IF x = None \/ x = "" THEN None ELSE strip(x)

normalized(req) ==
    LET instrument == validate_instrument(req.instrument)
    IN  IF IsRaised(instrument) THEN instrument
        ELSE [instrument |-> instrument,
              side |-> upper(strip(req.side)),
              quantity |-> req.quantity,
              order_type |-> upper(strip(req.order_type)),
              limit_price |-> req.limit_price,
              stop_price |-> req.stop_price,
              tif |-> upper(strip(req.tif)),
              outside_rth |-> req.outside_rth,
              good_till_date |-> strip_or_none(req.good_till_date),
              account |-> strip_or_none(req.account),
              order_ref |-> strip_or_none(req.order_ref),
              oca_group |-> strip_or_none(req.oca_group),
              transmit |-> req.transmit]

validate_order_request(request) ==
    LET req == normalized(request)
    IN  IF IsRaised(req) THEN req
        ELSE IF req.side \notin {"BUY", "SELL"} THEN Raise("InvalidInput")
        ELSE IF req.quantity <= 0 THEN Raise("InvalidInput")
        ELSE IF req.order_type \notin {"MKT", "LMT"}
                /\ req.order_type \notin {"STP", "STPLMT"} THEN Raise("InvalidInput")
        ELSE IF req.order_type = "LMT"
                /\ (req.limit_price = Nil \/ Val(req.limit_price) <= 0) THEN Raise("InvalidInput")
        ELSE IF req.order_type = "STP"
                /\ (req.stop_price = Nil \/ Val(req.stop_price) <= 0) THEN Raise("InvalidInput")
        ELSE IF req.order_type = "STPLMT"
                /\ (req.stop_price = Nil \/ Val(req.stop_price) <= 0
                    \/ req.limit_price = Nil \/ Val(req.limit_price) <= 0) THEN Raise("InvalidInput")
        ELSE IF req.tif = "" THEN Raise("InvalidInput")
        ELSE IF req.tif = "GTD" /\ req.good_till_date = None THEN Raise("InvalidInput")
        ELSE req

OrderStatus(order_id, status, filled, remaining, avg_fill_price) ==
    [order_id |-> order_id, status |-> status, filled |-> filled,
     remaining |-> remaining, avg_fill_price |-> avg_fill_price]

AAPL == InstrumentSpec("STK", "AAPL")

\* The order requests the callers draw from: two valid ones (one of them
\* not yet normalized) and one for every branch of validate_order_request
\* that rejects.
OrderRequests ==
    { OrderRequest(AAPL, " buy", 2, "MKT", Nil, Nil, "DAY", None),
      OrderRequest(AAPL, "SELL", 1, " lmt ", Some(99), Nil, "day", None),
      OrderRequest(AAPL, "hold", 1, "MKT", Nil, Nil, "DAY", None),
      OrderRequest(AAPL, "BUY", 0, "MKT", Nil, Nil, "DAY", None),
      OrderRequest(AAPL, "BUY", 1, "LMT", Nil, Nil, "DAY", None),
      OrderRequest(AAPL, "BUY", 1, "STP", Nil, Nil, "DAY", None),
      OrderRequest(AAPL, "BUY", 1, "STPLMT", Some(0), Some(95), "DAY", None),
      OrderRequest(AAPL, "BUY", 1, "XYZ", Nil, Nil, "DAY", None),
      OrderRequest(AAPL, "BUY", 1, "MKT", Nil, Nil, "", None),
      OrderRequest(AAPL, "BUY", 1, "MKT", Nil, Nil, "GTD", None),
      OrderRequest(InstrumentSpec("FUT", "ES"), "BUY", 1, "MKT", Nil, Nil, "DAY", None) }

-----------------------------------------------------------------------------
(* broker/sim.py: SimBroker.  Every operation maps the broker's fields to   *)
(* their new values and the call's result.                                 *)

SimId(n) == [prefix |-> "sim-", uuid |-> n]

Terminal == {"Filled", "Cancelled"}

SimState(connected, orders, statuses, uuid, result) ==
    [connected |-> connected, orders |-> orders, statuses |-> statuses,
     uuid |-> uuid, result |-> result]

sim == SimState(sim_connected, sim_orders, sim_statuses, sim_uuid, None)

\* Sim_place_order with the order left working instead of filled
Sim_place_order_unfilled(b, request) ==
    IF ~b.connected THEN [b EXCEPT !.result = Raise("NotConnected")]
    ELSE LET req == validate_order_request(request)
         IN  IF IsRaised(req) THEN [b EXCEPT !.result = req]
             ELSE LET order_id == SimId(b.uuid + 1)
                      status == OrderStatus(order_id, "Submitted", Some(0), Some(req.quantity), Nil)
                  IN  [b EXCEPT !.orders = Append(@, req),
                                !.uuid = @ + 1,
                                !.statuses = (order_id :> status) @@ @,
                                !.result = [order_id |-> order_id, status |-> status.status]]

Sim_place_order(b, request) ==
    IF ~b.connected THEN [b EXCEPT !.result = Raise("NotConnected")]
    ELSE LET req == validate_order_request(request)
         IN  IF IsRaised(req) THEN [b EXCEPT !.result = req]
             ELSE LET order_id == SimId(b.uuid + 1)
                      status == OrderStatus(order_id, "Filled", Some(req.quantity), Some(0), Nil)
                  IN  [b EXCEPT !.orders = Append(@, req),
                                !.uuid = @ + 1,
                                !.statuses = (order_id :> status) @@ @,
                                !.result = [order_id |-> order_id, status |-> status.status]]

Sim_modify_order(b, order_id, new_request) ==
    IF ~b.connected THEN [b EXCEPT !.result = Raise("NotConnected")]
    ELSE IF order_id \notin DOMAIN b.statuses THEN [b EXCEPT !.result = Raise("NotFound")]
    ELSE LET new_req == validate_order_request(new_request)
         IN  IF IsRaised(new_req) THEN [b EXCEPT !.result = new_req]
             ELSE LET cur == b.statuses[order_id]
                      appended == [b EXCEPT !.orders = Append(@, new_req)]
                  IN  IF cur.status \in Terminal
                      THEN [appended EXCEPT !.result = [order_id |-> order_id, status |-> cur.status]]
                      ELSE [appended EXCEPT
                              !.statuses[order_id] = OrderStatus(order_id, "Submitted", cur.filled,
                                                                 cur.remaining, cur.avg_fill_price),
                              !.result = [order_id |-> order_id, status |-> "Submitted"]]

\* Sim_cancel_order without the check for an order that is already done
Sim_cancel_order_any(b, order_id) ==
    IF ~b.connected THEN [b EXCEPT !.result = Raise("NotConnected")]
    ELSE IF order_id \notin DOMAIN b.statuses THEN [b EXCEPT !.result = Raise("NotFound")]
    ELSE LET status == b.statuses[order_id]
         IN  [b EXCEPT
                !.statuses[order_id] = OrderStatus(order_id, "Cancelled", status.filled,
                                                   status.remaining, status.avg_fill_price),
                !.result = [returned |-> None]]

Sim_cancel_order(b, order_id) ==
    IF ~b.connected THEN [b EXCEPT !.result = Raise("NotConnected")]
    ELSE IF order_id \notin DOMAIN b.statuses THEN [b EXCEPT !.result = Raise("NotFound")]
    ELSE LET status == b.statuses[order_id]
         IN  IF status.status \in Terminal THEN [b EXCEPT !.result = [returned |-> None]]
             ELSE [b EXCEPT
                     !.statuses[order_id] = OrderStatus(order_id, "Cancelled", status.filled,
                                                        status.remaining, status.avg_fill_price),
                     !.result = [returned |-> None]]

Sim_get_order_status(b, order_id) ==
    IF ~b.connected THEN [b EXCEPT !.result = Raise("NotConnected")]
    ELSE IF order_id \notin DOMAIN b.statuses THEN [b EXCEPT !.result = Raise("NotFound")]
    ELSE [b EXCEPT !.result = b.statuses[order_id]]

Sim_list_open_order_statuses(b) ==
    IF ~b.connected THEN [b EXCEPT !.result = Raise("NotConnected")]
    ELSE [b EXCEPT !.result =
            [open |-> {b.statuses[o] : o \in {x \in DOMAIN b.statuses : b.statuses[x].status \notin Terminal}}]]

Sim_place_bracket_order(b) ==
    IF ~b.connected THEN [b EXCEPT !.result = Raise("NotConnected")]
    ELSE LET parent_id == SimId(b.uuid + 1)
             tp_id == SimId(b.uuid + 2)
             sl_id == SimId(b.uuid + 3)
         IN  [b EXCEPT
                !.uuid = @ + 3,
                !.statuses = (parent_id :> OrderStatus(parent_id, "Submitted", Nil, Nil, Nil))
                             @@ (tp_id :> OrderStatus(tp_id, "Submitted", Nil, Nil, Nil))
                             @@ (sl_id :> OrderStatus(sl_id, "Submitted", Nil, Nil, Nil))
                             @@ @,
                !.result = [parent_order_id |-> parent_id, take_profit_order_id |-> tp_id,
                            stop_loss_order_id |-> sl_id]]

\* Test helper, not part of the Broker protocol: no connection check
Sim_inject_order_status(b, status) ==
    [b EXCEPT !.statuses = (status.order_id :> status) @@ @,
              !.result = [returned |-> None]]

\* get_market_data_snapshot, get_positions, get_account_snapshot and
\* get_historical_bars read what the setters injected; the model calls no
\* setter, so there is no market data, no position, no account value, no bar.
Sim_read(b, op) ==
    IF ~b.connected THEN [b EXCEPT !.result = Raise("NotConnected")]
    ELSE IF op = "get_market_data_snapshot" THEN [b EXCEPT !.result = Raise("NotFound")]
    ELSE IF op = "get_positions" THEN [b EXCEPT !.result = [positions |-> <<>>]]
    ELSE IF op = "get_account_snapshot" THEN [b EXCEPT !.result = [values |-> <<>>]]
    ELSE [b EXCEPT !.result = [bars |-> <<>>]]

SimReadOps == {"get_market_data_snapshot", "get_positions", "get_account_snapshot",
               "get_historical_bars"}

-----------------------------------------------------------------------------
(* SimBroker: the actions *)

\* Order ids a caller may name: the known ones and one that was never issued
SimOrderIds == DOMAIN sim_statuses \cup {[prefix |-> "sim-", uuid |-> 0]}

SimCall(op, order_id, req, after) ==
    /\ sim_connected' = after.connected
    /\ sim_orders' = after.orders
    /\ sim_statuses' = after.statuses
    /\ sim_uuid' = after.uuid
    /\ sim_ret' = [op |-> op, order_id |-> order_id, req |-> req, result |-> after.result]
    /\ UNCHANGED exceptSim

SimInit ==
    /\ sim_connected = FALSE
    /\ sim_orders = <<>>
    /\ sim_statuses = <<>>
    /\ sim_uuid = 0
    /\ sim_ret = [op |-> "init", order_id |-> NoArg, req |-> NoArg, result |-> [returned |-> None]]

SimConnect ==
    SimCall("connect", NoArg, NoArg, [sim EXCEPT !.connected = TRUE, !.result = [returned |-> None]])

SimDisconnect ==
    SimCall("disconnect", NoArg, NoArg, [sim EXCEPT !.connected = FALSE, !.result = [returned |-> None]])

SimPlaceOrder ==
    \E req \in OrderRequests :
        /\ Len(sim_orders) < MaxSimOrders
        /\ sim_uuid < MaxUuid
        /\ SimCall("place_order", NoArg, req, Sim_place_order(sim, req))

\* The replacements a caller sends for an order: a valid one, not yet
\* normalized, and an invalid one
SimModifyRequests ==
    { OrderRequest(AAPL, "SELL", 1, " lmt ", Some(99), Nil, "day", None),
      OrderRequest(AAPL, "BUY", 0, "MKT", Nil, Nil, "DAY", None) }

SimModifyOrder ==
    \E order_id \in SimOrderIds, req \in SimModifyRequests :
        /\ Len(sim_orders) < MaxSimOrders
        /\ SimCall("modify_order", order_id, req, Sim_modify_order(sim, order_id, req))

SimCancelOrder ==
    \E order_id \in SimOrderIds :
        SimCall("cancel_order", order_id, NoArg, Sim_cancel_order(sim, order_id))

SimGetOrderStatus ==
    \E order_id \in SimOrderIds :
        SimCall("get_order_status", order_id, NoArg, Sim_get_order_status(sim, order_id))

SimListOpenOrderStatuses ==
    SimCall("list_open_order_statuses", NoArg, NoArg, Sim_list_open_order_statuses(sim))

SimPlaceBracketOrder ==
    /\ sim_uuid + 3 <= MaxUuid
    /\ SimCall("place_bracket_order", NoArg, NoArg, Sim_place_bracket_order(sim))

SimRead ==
    \E op \in SimReadOps : SimCall(op, NoArg, NoArg, Sim_read(sim, op))

\* The statuses a test injects: a partly filled working order under an id of
\* the caller's choosing
InjectedStatuses ==
    { OrderStatus([prefix |-> "ext-", uuid |-> 1], "PreSubmitted", Some(1), Some(1), Some(50)) }

SimInjectOrderStatus ==
    \E status \in InjectedStatuses :
        SimCall("_inject_order_status", status.order_id, NoArg, Sim_inject_order_status(sim, status))

SimNext ==
    \/ SimConnect
    \/ SimDisconnect
    \/ SimPlaceOrder
    \/ SimModifyOrder
    \/ SimCancelOrder
    \/ SimGetOrderStatus
    \/ SimListOpenOrderStatuses
    \/ SimPlaceBracketOrder
    \/ SimRead
    \/ SimInjectOrderStatus

-----------------------------------------------------------------------------
(* BacktestBroker (backtest/broker.py).  Prices and cash are integers in one
   currency unit; the bars and limits used are multiples of 100 so that a
   slippage of 100 bps is exact.  The average cost is an exact fraction. *)

RECURSIVE GCD(_, _)
GCD(a, b) == IF b = 0 THEN a ELSE GCD(b, a % b)

\* The fraction n/d in lowest terms
Rat(n, d) == LET g == GCD(n, d) IN <<n \div g, d \div g>>

Bar(timestamp_epoch_s, open, high, low, close) ==
    [timestamp_epoch_s |-> timestamp_epoch_s, open |-> open, high |-> high,
     low |-> low, close |-> close]

\* The bar series the broker is constructed with
BtBars == << Bar(1, 200, 300, 200, 300), Bar(2, 300, 400, 200, 400), Bar(3, 400, 400, 300, 300) >>

FillModel(commission_per_order, slippage_bps) ==
    [commission_per_order |-> commission_per_order, slippage_bps |-> slippage_bps]

FillModels == { FillModel(0, 0), FillModel(1, 100) }

initial_cash == 100000

Sign(side) == IF upper(side) = "BUY" THEN 1 ELSE -1

apply_slippage(fm, price, side) ==
    IF fm.slippage_bps <= 0 THEN price
    ELSE price + Sign(side) * ((price * fm.slippage_bps) \div 10000)

BtState(instrument, fm, connected, i, cash, qty, avg_cost, orders, statuses, open, result) ==
    [instrument |-> instrument, fill_model |-> fm, connected |-> connected, i |-> i,
     cash |-> cash, qty |-> qty, avg_cost |-> avg_cost, orders |-> orders,
     statuses |-> statuses, open |-> open, result |-> result, bars |-> BtBars]

bt == BtState(bt_instrument, bt_fill_model, bt_connected, bt_i, bt_cash, bt_qty, bt_avg_cost,
              bt_orders, bt_statuses, bt_open, None)

BtId(n) == [prefix |-> "bt-", uuid |-> n]

\* _try_fill with a limit that fills only when the bar trades through it
_try_fill_through(req, bar) ==
    LET side == upper(req.side)
    IN  IF req.order_type = "MKT" THEN Some(bar.open)
        ELSE IF req.order_type = "LMT" THEN
            LET lp == Val(req.limit_price)
            IN  IF side = "BUY" /\ bar.low < lp THEN Some(lp)
                ELSE IF side = "SELL" /\ bar.high > lp THEN Some(lp)
                ELSE Nil
        ELSE Nil

\* _try_fill with a market order filled at the close of the bar
_try_fill_close(req, bar) ==
    LET side == upper(req.side)
    IN  IF req.order_type = "MKT" THEN Some(bar.close)
        ELSE IF req.order_type = "LMT" THEN
            LET lp == Val(req.limit_price)
            IN  IF side = "BUY" /\ bar.low <= lp THEN Some(lp)
                ELSE IF side = "SELL" /\ bar.high >= lp THEN Some(lp)
                ELSE Nil
        ELSE Nil

_try_fill(req, bar) ==
    LET side == upper(req.side)
    IN  IF req.order_type = "MKT" THEN Some(bar.open)
        ELSE IF req.order_type = "LMT" THEN
            LET lp == Val(req.limit_price)
            IN  IF side = "BUY" /\ bar.low <= lp THEN Some(lp)
                ELSE IF side = "SELL" /\ bar.high >= lp THEN Some(lp)
                ELSE Nil
        ELSE IF req.order_type = "STP" THEN
            LET sp == Val(req.stop_price)
            IN  IF side = "BUY" /\ bar.high >= sp THEN Some(sp)
                ELSE IF side = "SELL" /\ bar.low <= sp THEN Some(sp)
                ELSE Nil
        ELSE IF req.order_type = "STPLMT" THEN
            LET sp == Val(req.stop_price)
                lp == Val(req.limit_price)
                triggered == IF side = "BUY" THEN bar.high >= sp ELSE bar.low <= sp
            IN  IF ~triggered THEN Nil
                ELSE IF side = "BUY" /\ bar.low <= lp THEN Some(lp)
                ELSE IF side = "SELL" /\ bar.high >= lp THEN Some(lp)
                ELSE Nil
        ELSE Nil

Abs(x) == IF x < 0 THEN -x ELSE x

\* _apply_fill that charges no commission and leaves the average cost alone
_apply_fill_free(b, side, qty, price, commission) ==
    [b EXCEPT !.cash = @ - price * qty * Sign(side), !.qty = @ + Sign(side) * qty]

_apply_fill(b, side, qty, price, commission) ==
    LET delta_qty == Sign(side) * qty
        cost == price * qty * Sign(side)
        new_qty == b.qty + delta_qty
        prev == IF b.avg_cost = Nil THEN <<0, 1>> ELSE b.avg_cost
        avg == IF b.qty = 0
               THEN (IF new_qty # 0 THEN Rat(price, 1) ELSE Nil)
               ELSE IF (b.qty > 0 /\ delta_qty > 0) \/ (b.qty < 0 /\ delta_qty < 0)
               THEN (IF Abs(new_qty) > 0
                     THEN Rat(prev[1] * Abs(b.qty) + price * Abs(delta_qty) * prev[2],
                              prev[2] * Abs(new_qty))
                     ELSE b.avg_cost)
               ELSE (IF new_qty = 0 THEN Nil ELSE b.avg_cost)
    IN  [b EXCEPT !.cash = @ - cost - commission, !.avg_cost = avg, !.qty = new_qty]

\* order: the sequence in which the set _open is iterated
RECURSIVE _fill_open_orders(_, _, _)
_fill_open_orders(b, bar, order) ==
    IF order = <<>> THEN b
    ELSE LET oid == Head(order)
             req == b.orders[oid]
             fill == _try_fill(req, bar)
         IN  IF fill = Nil THEN _fill_open_orders(b, bar, Tail(order))
             ELSE LET fill_price == apply_slippage(b.fill_model, Val(fill), req.side)
                      b1 == _apply_fill(b, req.side, req.quantity, fill_price,
                                        b.fill_model.commission_per_order)
                      b2 == [b1 EXCEPT
                               !.open = @ \ {oid},
                               !.statuses[oid] = OrderStatus(oid, "Filled", Some(req.quantity),
                                                             Some(0), Some(fill_price))]
                  IN  _fill_open_orders(b2, bar, Tail(order))

Bt_connect(b) ==
    [b EXCEPT !.connected = TRUE, !.instrument = validate_instrument(@), !.cash = initial_cash, !.qty = 0, !.avg_cost = Nil, !.i = 0,
              !.result = [returned |-> None]]

Bt_step(b, order) ==
    IF ~b.connected THEN [b EXCEPT !.result = Raise("NotConnected")]
    ELSE IF b.i >= Len(b.bars) THEN [b EXCEPT !.result = [more |-> FALSE]]
    ELSE LET b1 == _fill_open_orders(b, b.bars[b.i + 1], order)
         IN  [b1 EXCEPT !.i = @ + 1, !.result = [more |-> b.i + 1 < Len(b.bars)]]

current_bar(b) ==
    IF b.i = 0 THEN b.bars[1]
    ELSE b.bars[(IF b.i - 1 < Len(b.bars) - 1 THEN b.i - 1 ELSE Len(b.bars) - 1) + 1]

\* spread is left at its default 0, so bid and ask are absent
Bt_get_market_data_snapshot(b, instrument) ==
    IF ~b.connected THEN [b EXCEPT !.result = Raise("NotConnected")]
    ELSE IF validate_instrument(instrument) # b.instrument
    THEN [b EXCEPT !.result = Raise(IF IsRaised(validate_instrument(instrument))
                                    THEN "InvalidInput" ELSE "NotFound")]
    ELSE LET bar == current_bar(b)
         IN  [b EXCEPT !.result = [bid |-> Nil, ask |-> Nil, last |-> bar.close,
                                   close |-> bar.close,
                                   timestamp_epoch_s |-> bar.timestamp_epoch_s]]

Bt_get_historical_bars(b, instrument) ==
    IF validate_instrument(instrument) # b.instrument
    THEN [b EXCEPT !.result = Raise(IF IsRaised(validate_instrument(instrument))
                                    THEN "InvalidInput" ELSE "NotFound")]
    ELSE [b EXCEPT !.result = [bars |-> SubSeq(b.bars, 1, b.i)]]

Bt_get_positions(b) ==
    IF ~b.connected THEN [b EXCEPT !.result = Raise("NotConnected")]
    ELSE [b EXCEPT !.result = [account |-> "BACKTEST", quantity |-> b.qty,
                               avg_cost |-> b.avg_cost,
                               timestamp_epoch_s |-> current_bar(b).timestamp_epoch_s]]

Bt_get_account_snapshot(b) ==
    IF ~b.connected THEN [b EXCEPT !.result = Raise("NotConnected")]
    ELSE LET last == current_bar(b).close
             net_liq == b.cash + b.qty * last
         IN  [b EXCEPT !.result = [NetLiquidation |-> net_liq,
                                   GrossPositionValue |-> Abs(b.qty) * last,
                                   AvailableFunds |-> net_liq,
                                   MaintMarginReq |-> 0]]

Bt_place_order(b, request) ==
    IF ~b.connected THEN [b EXCEPT !.result = Raise("NotConnected")]
    ELSE LET req == validate_order_request(request)
         IN  IF IsRaised(req) THEN [b EXCEPT !.result = req]
             ELSE IF validate_instrument(req.instrument) # b.instrument
             THEN [b EXCEPT !.result = Raise("InvalidInput")]
             ELSE LET order_id == BtId(Cardinality(DOMAIN b.orders) + 1)
                      st == OrderStatus(order_id, "Submitted", Some(0), Some(req.quantity), Nil)
                  IN  [b EXCEPT !.orders = (order_id :> req) @@ @,
                                !.open = @ \cup {order_id},
                                !.statuses = (order_id :> st) @@ @,
                                !.result = [order_id |-> order_id, status |-> st.status]]

\* modify_order that puts the order back among the open ones
Bt_modify_order_reopening(b, order_id, new_request) ==
    IF ~b.connected THEN [b EXCEPT !.result = Raise("NotConnected")]
    ELSE IF order_id \notin DOMAIN b.orders THEN [b EXCEPT !.result = Raise("NotFound")]
    ELSE LET new_req == validate_order_request(new_request)
         IN  IF IsRaised(new_req) THEN [b EXCEPT !.result = new_req]
             ELSE [b EXCEPT !.orders[order_id] = new_req,
                            !.open = @ \cup {order_id},
                            !.statuses[order_id] =
                                OrderStatus(order_id, "Submitted", Some(0),
                                            Some(new_req.quantity), Nil),
                            !.result = [order_id |-> order_id, status |-> "Submitted"]]

Bt_modify_order(b, order_id, new_request) ==
    IF ~b.connected THEN [b EXCEPT !.result = Raise("NotConnected")]
    ELSE IF order_id \notin DOMAIN b.orders THEN [b EXCEPT !.result = Raise("NotFound")]
    ELSE LET new_req == validate_order_request(new_request)
         IN  IF IsRaised(new_req) THEN [b EXCEPT !.result = new_req]
             ELSE LET b1 == [b EXCEPT !.orders[order_id] = new_req]
                      b2 == IF order_id \in b.open
                            THEN [b1 EXCEPT !.statuses[order_id] =
                                     OrderStatus(order_id, "Submitted", Some(0),
                                                 Some(new_req.quantity), Nil)]
                            ELSE b1
                  IN  [b2 EXCEPT !.result = [order_id |-> order_id,
                                             status |-> b2.statuses[order_id].status]]

Bt_cancel_order(b, order_id) ==
    IF ~b.connected THEN [b EXCEPT !.result = Raise("NotConnected")]
    ELSE IF order_id \notin DOMAIN b.orders THEN [b EXCEPT !.result = Raise("NotFound")]
    ELSE LET st == b.statuses[order_id]
         IN  [b EXCEPT !.open = @ \ {order_id},
                       !.statuses[order_id] = OrderStatus(order_id, "Cancelled", st.filled,
                                                          st.remaining, st.avg_fill_price),
                       !.result = [returned |-> None]]

Bt_get_order_status(b, order_id) ==
    IF ~b.connected THEN [b EXCEPT !.result = Raise("NotConnected")]
    ELSE IF order_id \notin DOMAIN b.statuses THEN [b EXCEPT !.result = Raise("NotFound")]
    ELSE [b EXCEPT !.result = b.statuses[order_id]]

Bt_list_open_order_statuses(b) ==
    IF ~b.connected THEN [b EXCEPT !.result = Raise("NotConnected")]
    ELSE [b EXCEPT !.result = [open |-> {b.statuses[oid] : oid \in b.open}]]

BracketOrderRequest(instrument, side, quantity, entry_limit_price, take_profit_limit_price, stop_loss_stop_price) ==
    [instrument |-> instrument, side |-> side, quantity |-> quantity,
     entry_limit_price |-> entry_limit_price,
     take_profit_limit_price |-> take_profit_limit_price,
     stop_loss_stop_price |-> stop_loss_stop_price, tif |-> "DAY"]

\* place_order for each request in turn; the first failure ends the sequence
\* and leaves the orders placed before it
RECURSIVE Bt_place_orders(_, _, _)
Bt_place_orders(b, requests, ids) ==
    IF requests = <<>>
    THEN [b EXCEPT !.result = [parent_order_id |-> ids[1], take_profit_order_id |-> ids[2],
                               stop_loss_order_id |-> ids[3]]]
    ELSE LET b1 == Bt_place_order(b, Head(requests))
         IN  IF IsRaised(b1.result) THEN b1
             ELSE Bt_place_orders(b1, Tail(requests), Append(ids, b1.result.order_id))

Bt_place_bracket_order(b, req) ==
    LET exit_side == IF upper(req.side) = "BUY" THEN "SELL" ELSE "BUY"
    IN  Bt_place_orders(b,
            << OrderRequest(req.instrument, req.side, req.quantity, "LMT",
                            req.entry_limit_price, Nil, req.tif, None),
               OrderRequest(req.instrument, exit_side, req.quantity, "LMT",
                            req.take_profit_limit_price, Nil, req.tif, None),
               OrderRequest(req.instrument, exit_side, req.quantity, "STP",
                            Nil, req.stop_loss_stop_price, req.tif, None) >>,
            <<>>)

-----------------------------------------------------------------------------
(* BacktestBroker: the actions *)

TSLA == InstrumentSpec("STK", "TSLA")

\* The requests placed in a backtest: every order type, one limit that no bar
\* reaches, one that the second bar reaches, one invalid request and one for
\* another instrument
BtOrderRequests ==
    { OrderRequest(AAPL, "BUY", 1, "MKT", Nil, Nil, "DAY", None),
      OrderRequest(AAPL, "sell", 2, "MKT", Nil, Nil, "DAY", None),
      OrderRequest(AAPL, "BUY", 1, "LMT", Some(100), Nil, "DAY", None),
      OrderRequest(AAPL, "SELL", 1, "LMT", Some(400), Nil, "DAY", None),
      OrderRequest(AAPL, "SELL", 1, "STPLMT", Some(400), Some(200), "DAY", None),
      OrderRequest(AAPL, "BUY", 0, "MKT", Nil, Nil, "DAY", None),
      OrderRequest(TSLA, "BUY", 1, "MKT", Nil, Nil, "DAY", None) }

\* The replacements a caller sends for an order: a limit the bars reach, a
\* market order on the other side, and an invalid request
BtModifyRequests ==
    { OrderRequest(AAPL, "BUY", 2, "LMT", Some(200), Nil, "DAY", None),
      OrderRequest(AAPL, "sell", 2, "MKT", Nil, Nil, "DAY", None),
      OrderRequest(AAPL, "BUY", 0, "MKT", Nil, Nil, "DAY", None) }

BtBracketRequests ==
    { BracketOrderRequest(AAPL, "BUY", 1, Some(200), Some(400), Some(200)),
      BracketOrderRequest(AAPL, " buy", 1, Some(200), Some(400), Some(200)),
      BracketOrderRequest(AAPL, "BUY", 1, Some(200), Some(0), Some(200)) }

\* Order ids a caller names: the first one issued and one that was never issued
BtOrderIds == {BtId(1), BtId(0)}

\* The orders in which a set can be iterated
Orderings(S) ==
    { s \in [1..Cardinality(S) -> S] : \A i, j \in 1..Cardinality(S) : s[i] = s[j] => i = j }

BtCall(op, order_id, req, after) ==
    /\ bt_instrument' = after.instrument
    /\ bt_fill_model' = after.fill_model
    /\ bt_connected' = after.connected
    /\ bt_i' = after.i
    /\ bt_cash' = after.cash
    /\ bt_qty' = after.qty
    /\ bt_avg_cost' = after.avg_cost
    /\ bt_orders' = after.orders
    /\ bt_statuses' = after.statuses
    /\ bt_open' = after.open
    /\ bt_ret' = [op |-> op, order_id |-> order_id, req |-> req, result |-> after.result]
    /\ UNCHANGED exceptBt

\* A BacktestBroker as the dataclass constructs it
BtNew(fm) ==
    BtState(AAPL, fm, FALSE, 0, 0, 0, Nil, <<>>, <<>>, {}, [returned |-> None])

BtInit ==
    /\ bt_instrument = AAPL
    /\ bt_fill_model = FillModel(0, 0)
    /\ bt_connected = FALSE
    /\ bt_i = 0
    /\ bt_cash = 0
    /\ bt_qty = 0
    /\ bt_avg_cost = Nil
    /\ bt_orders = <<>>
    /\ bt_statuses = <<>>
    /\ bt_open = {}
    /\ bt_ret = [op |-> "init", order_id |-> NoArg, req |-> NoArg, result |-> [returned |-> None]]

BtConstruct ==
    \E fm \in FillModels : BtCall("BacktestBroker", NoArg, NoArg, BtNew(fm))

\* connect() is called once on a broker object, as run_backtest does: the
\* instrument is still the one the constructor was given.  (A second connect()
\* would reset cursor, cash and position and keep the orders.)
BtConnect ==
    /\ bt_instrument = AAPL
    /\ BtCall("connect", NoArg, NoArg, Bt_connect(bt))

BtDisconnect ==
    BtCall("disconnect", NoArg, NoArg,
           [bt EXCEPT !.connected = FALSE, !.result = [returned |-> None]])

BtStep ==
    \E order \in Orderings(bt_open) : BtCall("step", NoArg, NoArg, Bt_step(bt, order))

BtPlaceOrder ==
    \E req \in BtOrderRequests :
        /\ Cardinality(DOMAIN bt_orders) < MaxBtOrders
        /\ BtCall("place_order", NoArg, req, Bt_place_order(bt, req))

BtModifyOrder ==
    \E order_id \in BtOrderIds, req \in BtModifyRequests :
        BtCall("modify_order", order_id, req, Bt_modify_order(bt, order_id, req))

BtCancelOrder ==
    \E order_id \in BtOrderIds :
        BtCall("cancel_order", order_id, NoArg, Bt_cancel_order(bt, order_id))

BtGetOrderStatus ==
    \E order_id \in BtOrderIds :
        BtCall("get_order_status", order_id, NoArg, Bt_get_order_status(bt, order_id))

BtListOpenOrderStatuses ==
    BtCall("list_open_order_statuses", NoArg, NoArg, Bt_list_open_order_statuses(bt))

BtPlaceBracketOrder ==
    \E req \in BtBracketRequests :
        /\ DOMAIN bt_orders = {}
        /\ BtCall("place_bracket_order", NoArg, req, Bt_place_bracket_order(bt, req))

BtGetMarketDataSnapshot ==
    \E instrument \in {AAPL, TSLA} :
        BtCall("get_market_data_snapshot", NoArg, instrument,
               Bt_get_market_data_snapshot(bt, instrument))

BtGetHistoricalBars ==
    \E instrument \in {AAPL, TSLA} :
        BtCall("get_historical_bars", NoArg, instrument, Bt_get_historical_bars(bt, instrument))

BtGetPositions == BtCall("get_positions", NoArg, NoArg, Bt_get_positions(bt))

BtGetAccountSnapshot == BtCall("get_account_snapshot", NoArg, NoArg, Bt_get_account_snapshot(bt))

BtNext ==
    \/ BtConstruct
    \/ BtConnect
    \/ BtDisconnect
    \/ BtStep
    \/ BtPlaceOrder
    \/ BtModifyOrder
    \/ BtCancelOrder
    \/ BtGetOrderStatus
    \/ BtListOpenOrderStatuses
    \/ BtPlaceBracketOrder
    \/ BtGetMarketDataSnapshot
    \/ BtGetHistoricalBars
    \/ BtGetPositions
    \/ BtGetAccountSnapshot

-----------------------------------------------------------------------------
(* IBKRBroker (broker/ibkr.py): connect(), its paper-account check and
   disconnect().  The gateway is the environment: its connect call fails or
   succeeds and each managedAccounts() call raises or returns a list.  An
   account name is a sequence of characters. *)

\* range(10): the managedAccounts() calls one paper check makes at most
PaperCheckPolls == 10

\* str(a).startswith("DU")
StartsWithDU(a) == Len(a) >= 2 /\ a[1] = "D" /\ a[2] = "U"

\* What one managedAccounts() call yields.  <<>> stands for the empty list
\* and for accounts = None after an exception: the code tests truthiness only.
ManagedAccounts ==
    { <<>>,
      << <<"D", "U", "1">> >>,
      << <<"D", "U", "1">>, <<"D", "U", "2">> >>,
      << <<"D", "U", "1">>, <<"U", "9">> >>,
      << <<"U", "9">> >>,
      << <<"d", "u", "1">> >>,
      << <<"D">> >> }

\* The verdict with only the first managed account examined
_assert_paper_trading_first(handle, accounts) ==
    IF ~handle THEN Raise("NotConnected")
    ELSE IF accounts = <<>> THEN Raise("RuntimeError")
    ELSE IF ~StartsWithDU(accounts[1]) THEN Raise("RuntimeError")
    ELSE [returned |-> None]

\* The verdict of the paper check on the accounts its polling loop ended with
_assert_paper_trading(handle, accounts) ==
    IF ~handle THEN Raise("NotConnected")
    ELSE IF accounts = <<>> THEN Raise("RuntimeError")
    ELSE IF \E k \in 1..Len(accounts) : ~StartsWithDU(accounts[k]) THEN Raise("RuntimeError")
    ELSE [returned |-> None]

\* ---- the order operations.  The adapter and the IB object it holds are a
\* record: handle (_ib is set), session (the IB object is connected), trades
\* and contracts (the caches _trades and _contracts, keyed by order id),
\* gateway (the trades the IB object knows, ib.trades(), keyed by orderId),
\* next_id (the next orderId the client hands out), calls (the requests the
\* operation sent to the gateway, in order) and result.

\* str(orderId) for the orderIds the model hands out, and the ids a caller
\* may pass that are no such string
OrderIdDigits == <<"1", "2", "3", "4", "5", "6", "7", "8", "9">>

order_id_str(n) == OrderIdDigits[n]

\* int(str(order_id)): the number the text spells, surrounding blanks
\* ignored, or ValueError
oid_int(order_id) ==
    IF \E n \in DOMAIN OrderIdDigits : OrderIdDigits[n] = strip(order_id)
    THEN [value |-> CHOOSE n \in DOMAIN OrderIdDigits : OrderIdDigits[n] = strip(order_id)]
    ELSE Raise("ValueError")

\* Stock / Future / Forex of the validated instrument; conId = 0 until the
\* gateway has qualified the contract
_to_contract(instrument) ==
    LET spec == validate_instrument(instrument)
    IN  IF IsRaised(spec) THEN spec
        ELSE IF spec.kind \notin {"STK", "FUT", "FX"} THEN Raise("ValueError")
        ELSE [secType |-> spec.kind, symbol |-> spec.symbol, exchange |-> spec.exchange,
              currency |-> spec.currency, expiry |-> spec.expiry, conId |-> 0]

\* The contract as the gateway's reference data resolves it
Qualified(contract) == [contract EXCEPT !.conId = 1]

\* A request on an IB object that is not connected raises ConnectionError in
\* the client library and nothing is sent
Sent(b, call) == [b EXCEPT !.calls = Append(@, call)]

\* _qualify that asks the gateway nothing and takes the contract as it is
_qualify_unasked(b, contract, qualifies) ==
    IF ~b.handle THEN [b EXCEPT !.result = Raise("NotConnected")]
    ELSE [b EXCEPT !.result = contract]

\* _qualify (144-150); qualifies: the gateway resolves the contract, the
\* answer is [contract], or it does not, the answer is []
_qualify(b, contract, qualifies) ==
    IF ~b.handle THEN [b EXCEPT !.result = Raise("NotConnected")]
    ELSE IF ~b.session THEN [b EXCEPT !.result = Raise("ConnectionError")]
    ELSE LET qualified == IF qualifies THEN <<Qualified(contract)>> ELSE <<>>
             b1 == Sent(b, [call |-> "qualifyContracts", contract |-> contract,
                            qualified |-> qualified])
         IN  IF qualified = <<>> THEN [b1 EXCEPT !.result = Raise("ContractNotFound")]
             ELSE [b1 EXCEPT !.result = qualified[1]]

\* _build_order that never sets order.orderId
_build_order_unnumbered(req, order_id) ==
    [orderId |-> 0, action |-> req.side, totalQuantity |-> req.quantity,
     orderType |-> req.order_type, lmtPrice |-> req.limit_price,
     auxPrice |-> req.stop_price, tif |-> req.tif]

\* _build_order (304-329); order_id = 0 stands for None: the order carries
\* no orderId yet
_build_order(req, order_id) ==
    IF req.order_type \notin {"MKT", "LMT", "STP", "STPLMT"} THEN Raise("ValueError")
    ELSE [orderId |-> order_id, action |-> req.side, totalQuantity |-> req.quantity,
          orderType |-> req.order_type,
          lmtPrice |-> IF req.order_type \in {"LMT", "STPLMT"} THEN req.limit_price ELSE Nil,
          auxPrice |-> IF req.order_type \in {"STP", "STPLMT"} THEN req.stop_price ELSE Nil,
          tif |-> req.tif]

\* ib.placeOrder(contract, order): an order without orderId gets the
\* client's next one; the gateway then knows the trade under that orderId.
\* The result is the trade.
placeOrder(b, contract, order) ==
    IF ~b.session THEN [b EXCEPT !.result = Raise("ConnectionError")]
    ELSE LET orderId == IF order.orderId = 0 THEN b.next_id ELSE order.orderId
             trade == [contract |-> contract, orderId |-> orderId]
         IN  [Sent(b, [call |-> "placeOrder", contract |-> contract,
                       order |-> [order EXCEPT !.orderId = orderId]])
                EXCEPT !.gateway = (orderId :> trade) @@ @,
                       !.next_id = IF order.orderId = 0 THEN @ + 1 ELSE @,
                       !.result = trade]

\* ib.cancelOrder(order)
cancelOrder(b, trade) ==
    IF ~b.session THEN [b EXCEPT !.result = Raise("ConnectionError")]
    ELSE [Sent(b, [call |-> "cancelOrder", orderId |-> trade.orderId])
            EXCEPT !.result = [returned |-> None]]

\* _find_trade (535-543): the trade of ib.trades() whose str(orderId) is
\* order_id, or None
_find_trade(b, order_id) ==
    IF \E n \in DOMAIN b.gateway : order_id_str(n) = order_id
    THEN Some(b.gateway[CHOOSE n \in DOMAIN b.gateway : order_id_str(n) = order_id])
    ELSE Nil

\* self._trades.get(str(order_id)) or _find_trade(self._ib, str(order_id))
cached_or_found(b, order_id) ==
    IF order_id \in DOMAIN b.trades THEN Some(b.trades[order_id])
    ELSE _find_trade(b, order_id)

\* self._trades[order_id] = trade; self._contracts[order_id] = contract
cache(b, order_id, trade, contract) ==
    [b EXCEPT !.trades = (order_id :> trade) @@ @,
              !.contracts = (order_id :> contract) @@ @]

\* str(getattr(trade.order, "orderId", "unknown")); has_id: the order object
\* of the trade has the attribute
trade_order_id(trade, has_id) ==
    IF has_id THEN order_id_str(trade.orderId) ELSE "unknown"

\* place_order (152-178); status: trade.orderStatus.status after the sleep
Ib_place_order(b, req, qualifies, has_id, status) ==
    IF ~b.handle THEN [b EXCEPT !.result = Raise("NotConnected")]
    ELSE LET valid == validate_order_request(req)
         IN  IF IsRaised(valid) THEN [b EXCEPT !.result = valid]
             ELSE LET b1 == _qualify(b, _to_contract(valid.instrument), qualifies)
                  IN  IF IsRaised(b1.result) THEN b1
                      ELSE LET b2 == placeOrder(b1, b1.result, _build_order(valid, 0))
                           IN  IF IsRaised(b2.result) THEN b2
                               ELSE LET order_id == trade_order_id(b2.result, has_id)
                                    IN  [cache(b2, order_id, b2.result, b1.result)
                                           EXCEPT !.result = [order_id |-> order_id,
                                                              status |-> status]]

\* The contract modify_order resubmits under (184-189): the cached one, else
\* that of the cached or found trade, else None
contract_of(b, order_id) ==
    IF order_id \in DOMAIN b.contracts THEN Some(b.contracts[order_id])
    ELSE LET trade == cached_or_found(b, order_id)
         IN  IF trade = Nil THEN Nil ELSE Some(Val(trade).contract)

\* modify_order (180-203)
Ib_modify_order(b, order_id, new_req, status) ==
    IF ~b.handle THEN [b EXCEPT !.result = Raise("NotConnected")]
    ELSE LET valid == validate_order_request(new_req)
             contract == contract_of(b, order_id)
             number == oid_int(order_id)
         IN  IF IsRaised(valid) THEN [b EXCEPT !.result = valid]
             ELSE IF contract = Nil THEN [b EXCEPT !.result = Raise("NotFound")]
             ELSE IF IsRaised(number) THEN [b EXCEPT !.result = Raise("InvalidInput")]
             ELSE LET b1 == placeOrder(b, Val(contract), _build_order(valid, number.value))
                  IN  IF IsRaised(b1.result) THEN b1
                      ELSE [cache(b1, order_id, b1.result, Val(contract))
                              EXCEPT !.result = [order_id |-> order_id, status |-> status]]

\* cancel_order (205-212)
Ib_cancel_order(b, order_id) ==
    IF ~b.handle THEN [b EXCEPT !.result = Raise("NotConnected")]
    ELSE LET trade == cached_or_found(b, order_id)
         IN  IF trade = Nil THEN [b EXCEPT !.result = Raise("NotFound")]
             ELSE cancelOrder(b, Val(trade))

\* The three placeOrder calls of place_bracket_order (289) and the caching of
\* their trades (291-294)
RECURSIVE place_bracket(_, _, _, _)
place_bracket(b, contract, orders, ids) ==
    IF orders = <<>> THEN [b EXCEPT !.result = [ids |-> ids]]
    ELSE LET b1 == placeOrder(b, contract, Head(orders))
         IN  IF IsRaised(b1.result) THEN b1
             ELSE place_bracket(cache(b1, order_id_str(b1.result.orderId), b1.result, contract),
                                contract, Tail(orders),
                                Append(ids, order_id_str(b1.result.orderId)))

\* ib.bracketOrder: the entry limit order and its two children, numbered by
\* the client
bracketOrder(b, side, req) ==
    LET reverse == IF side = "BUY" THEN "SELL" ELSE "BUY"
        order(k, action, orderType, lmtPrice, auxPrice) ==
            [orderId |-> b.next_id + k, action |-> action, totalQuantity |-> req.quantity,
             orderType |-> orderType, lmtPrice |-> lmtPrice, auxPrice |-> auxPrice,
             tif |-> req.tif]
    IN  << order(0, side, "LMT", req.entry_limit_price, Nil),
           order(1, reverse, "LMT", req.take_profit_limit_price, Nil),
           order(2, reverse, "STP", Nil, req.stop_loss_stop_price) >>

\* place_bracket_order (270-302)
Ib_place_bracket_order(b, req, qualifies) ==
    IF ~b.handle THEN [b EXCEPT !.result = Raise("NotConnected")]
    ELSE LET req_inst == validate_instrument(req.instrument)
             side == upper(strip(req.side))
         IN  IF IsRaised(req_inst) THEN [b EXCEPT !.result = req_inst]
             ELSE IF side \notin {"BUY", "SELL"} THEN [b EXCEPT !.result = Raise("InvalidInput")]
             ELSE IF req.quantity <= 0 THEN [b EXCEPT !.result = Raise("InvalidInput")]
             ELSE IF \/ Val(req.entry_limit_price) <= 0
                     \/ Val(req.take_profit_limit_price) <= 0
                     \/ Val(req.stop_loss_stop_price) <= 0
                  THEN [b EXCEPT !.result = Raise("InvalidInput")]
             ELSE LET b1 == _qualify(b, _to_contract(req_inst), qualifies)
                  IN  IF IsRaised(b1.result) THEN b1
                      ELSE LET b2 == place_bracket([b1 EXCEPT !.next_id = @ + 3], b1.result,
                                                   bracketOrder(b1, side, req), <<>>)
                           IN  IF IsRaised(b2.result) THEN b2
                               ELSE [b2 EXCEPT !.result =
                                        [parent_order_id |-> b2.result.ids[1],
                                         take_profit_order_id |-> b2.result.ids[2],
                                         stop_loss_order_id |-> b2.result.ids[3]]]

\* ---- the actions

\* The orderIds one adapter hands out
MaxIbOrders == 3

\* A trade the gateway holds from before the session, on another contract
EarlierTrade == [contract |-> Qualified(_to_contract(TSLA)), orderId |-> 9]

\* ib.trades() of a newly connected IB object
GatewayTrades == {<<>>, 9 :> EarlierTrade}

\* The requests place_order is called with: a valid one and one that
\* validation rejects
IbOrderRequests ==
    { OrderRequest(AAPL, " buy", 2, "MKT", Nil, Nil, "DAY", None),
      OrderRequest(AAPL, "BUY", 0, "MKT", Nil, Nil, "DAY", None) }

\* The requests modify_order is called with: a valid one, on an instrument
\* that need not be the order's, and one that validation rejects
IbModifyRequests ==
    { OrderRequest(TSLA, "SELL", 1, " lmt ", Some(99), Nil, "day", None),
      OrderRequest(AAPL, "BUY", 0, "MKT", Nil, Nil, "DAY", None) }

IbBracketRequests ==
    { BracketOrderRequest(AAPL, "BUY", 1, Some(200), Some(400), Some(100)),
      BracketOrderRequest(AAPL, "BUY", 1, Some(200), Some(0), Some(100)) }

\* The order ids modify_order and cancel_order are called with
IbOrderIds == {"1", "2", "9", "x1", "unknown"}

\* trade.orderStatus.status a quarter of a second after placeOrder
GatewayStatuses == {"PreSubmitted", "Submitted"}

IbSelf ==
    [handle |-> ib_handle, session |-> ib_session, trades |-> ib_trades,
     contracts |-> ib_contracts, gateway |-> ib_gateway, next_id |-> ib_next_id,
     calls |-> <<>>, result |-> None]

IbCall(op, args, after) ==
    /\ ib_pc = "idle"
    /\ ib_handle' = after.handle
    /\ ib_session' = after.session
    /\ ib_trades' = after.trades
    /\ ib_contracts' = after.contracts
    /\ ib_gateway' = after.gateway
    /\ ib_next_id' = after.next_id
    /\ ib_calls' = after.calls
    /\ ib_ret' = [op |-> op, args |-> args, result |-> after.result]
    /\ ib_polls' = 0
    /\ ib_accounts' = <<>>
    /\ UNCHANGED <<ib_require_paper, ib_factory, ib_pc, exceptIb>>

IbPlaceOrder ==
    /\ ib_next_id <= MaxIbOrders
    /\ \E req \in IbOrderRequests, qualifies \in BOOLEAN, has_id \in {TRUE, ~ib_factory},
          status \in GatewayStatuses :
          IbCall("place_order", [req |-> req],
                 Ib_place_order(IbSelf, req, qualifies, has_id, status))

IbModifyOrder ==
    \E order_id \in IbOrderIds, new_req \in IbModifyRequests, status \in GatewayStatuses :
        IbCall("modify_order", [order_id |-> order_id, req |-> new_req],
               Ib_modify_order(IbSelf, order_id, new_req, status))

IbCancelOrder ==
    \E order_id \in IbOrderIds :
        IbCall("cancel_order", [order_id |-> order_id], Ib_cancel_order(IbSelf, order_id))

IbPlaceBracketOrder ==
    /\ ib_next_id + 2 <= MaxIbOrders
    /\ \E req \in IbBracketRequests, qualifies \in BOOLEAN :
          IbCall("place_bracket_order", [req |-> req],
                 Ib_place_bracket_order(IbSelf, req, qualifies))

IbInit ==
    /\ ib_require_paper = TRUE
    /\ ib_factory = FALSE
    /\ ib_handle = FALSE
    /\ ib_session = FALSE
    /\ ib_pc = "idle"
    /\ ib_polls = 0
    /\ ib_accounts = <<>>
    /\ ib_trades = <<>>
    /\ ib_contracts = <<>>
    /\ ib_gateway = <<>>
    /\ ib_next_id = 1
    /\ ib_calls = <<>>
    /\ ib_ret = [op |-> "init", result |-> [returned |-> None]]

IbConstruct ==
    \E require_paper \in BOOLEAN, factory \in BOOLEAN :
        /\ ib_require_paper' = require_paper
        /\ ib_factory' = factory
        /\ ib_handle' = FALSE
        /\ ib_session' = FALSE
        /\ ib_pc' = "idle"
        /\ ib_polls' = 0
        /\ ib_accounts' = <<>>
        /\ ib_trades' = <<>>
        /\ ib_contracts' = <<>>
        /\ ib_gateway' = <<>>
        /\ ib_next_id' = 1
        /\ ib_calls' = <<>>
        /\ ib_ret' = [op |-> "IBKRBroker", result |-> [returned |-> None]]
        /\ UNCHANGED exceptIb

\* connect() up to the paper check: a new IB object; the socket preflight
\* (only without an injected factory) and the gateway connect call fail or
\* succeed.  The caches are left as they are.  The model connects an
\* adapter that has placed no order yet.
IbConnect ==
    /\ ib_pc = "idle"
    /\ ib_next_id = 1
    /\ \E preflight_ok \in BOOLEAN, connect_ok \in BOOLEAN, trades \in GatewayTrades :
        /\ ib_polls' = 0
        /\ ib_accounts' = <<>>
        /\ ib_calls' = <<>>
        /\ IF ~ib_factory /\ ~preflight_ok
           THEN /\ ib_handle' = TRUE
                /\ ib_session' = FALSE
                /\ ib_gateway' = <<>>
                /\ ib_pc' = "idle"
                /\ ib_ret' = [op |-> "connect", result |-> Raise("RuntimeError")]
           ELSE IF ~connect_ok
           THEN /\ ib_handle' = FALSE
                /\ ib_session' = FALSE
                /\ ib_gateway' = <<>>
                /\ ib_pc' = "idle"
                /\ ib_ret' = [op |-> "connect", result |-> Raise("RuntimeError")]
           ELSE /\ ib_handle' = TRUE
                /\ ib_session' = TRUE
                /\ ib_gateway' = trades
                /\ ib_pc' = IF ib_require_paper THEN "paper_check" ELSE "idle"
                /\ ib_ret' = [op |-> "connect",
                              result |-> IF ib_require_paper THEN [running |-> TRUE]
                                         ELSE [returned |-> None]]
    /\ UNCHANGED <<ib_require_paper, ib_factory, ib_trades, ib_contracts, ib_next_id, exceptIb>>

\* One round of the polling loop of _assert_paper_trading; the round that
\* reads a non-empty list, or the tenth round, ends the loop and connect()
IbPoll ==
    /\ ib_pc = "paper_check"
    /\ ib_polls < PaperCheckPolls
    /\ \E accounts \in ManagedAccounts :
        /\ ib_polls' = ib_polls + 1
        /\ ib_accounts' = accounts
        /\ IF accounts # <<>> \/ ib_polls + 1 = PaperCheckPolls
           THEN /\ ib_pc' = "idle"
                /\ ib_ret' = [op |-> "connect",
                              result |-> _assert_paper_trading(ib_handle, accounts)]
           ELSE UNCHANGED <<ib_pc, ib_ret>>
    /\ UNCHANGED <<ib_require_paper, ib_factory, ib_handle, ib_session, ib_trades, ib_contracts,
                   ib_gateway, ib_next_id, ib_calls, exceptIb>>

\* disconnect() (121-128): nothing without a handle, else the session ends
\* and the caches are cleared
IbDisconnect ==
    /\ ib_pc = "idle"
    /\ ib_handle' = FALSE
    /\ ib_session' = IF ib_handle THEN FALSE ELSE ib_session
    /\ ib_trades' = IF ib_handle THEN <<>> ELSE ib_trades
    /\ ib_contracts' = IF ib_handle THEN <<>> ELSE ib_contracts
    /\ ib_gateway' = IF ib_handle THEN <<>> ELSE ib_gateway
    /\ ib_calls' = <<>>
    /\ ib_ret' = [op |-> "disconnect", result |-> [returned |-> None]]
    /\ ib_polls' = 0
    /\ ib_accounts' = <<>>
    /\ UNCHANGED <<ib_require_paper, ib_factory, ib_pc, ib_next_id, exceptIb>>

IbNext ==
    \/ IbConstruct
    \/ IbConnect
    \/ IbPoll
    \/ IbDisconnect
    \/ IbPlaceOrder
    \/ IbModifyOrder
    \/ IbCancelOrder
    \/ IbPlaceBracketOrder

-----------------------------------------------------------------------------
(* The command line (cli.py, llm/chat.py main).  A command is one action: it
   reads the environment, applies the flags, constructs the broker and makes
   its calls; cli_calls lists the calls made on the broker and on the audit
   store, in order.  What the gateway and the arguments do to the command is
   drawn as one outcome of Worlds. *)

\* trading_algo.config.TradingConfig (not among the sources; its fields are
\* the ones cli.py reads and writes)
TradingConfig(broker, live_enabled, require_paper, dry_run, order_token, db_path) ==
    [broker |-> broker, live_enabled |-> live_enabled, require_paper |-> require_paper,
     dry_run |-> dry_run, order_token |-> order_token, db_path |-> db_path]

\* What TradingConfig.from_env() may return
EnvConfigs ==
    { TradingConfig(broker, live_enabled, require_paper, dry_run, order_token, db_path) :
        broker \in {"sim", "ibkr"}, live_enabled \in BOOLEAN, require_paper \in BOOLEAN,
        dry_run \in BOOLEAN, order_token \in {None, "", "tok"}, db_path \in {None, "audit.db"} }

\* The parsed command line: --broker (absent only where a command allows it),
\* --dry-run, --no-dry-run, --confirm-token, --order-test
CliArgs(brokers, order_tests) ==
    [broker : brokers, dry_run : BOOLEAN, no_dry_run : BOOLEAN,
     confirm_token : {None, "", "tok", "bad"}, order_test : order_tests]

\* How the run goes: every call succeeds, or connect() raises, or the
\* instrument or order arguments are invalid, or the command's broker
\* operation raises, or the follow-up get_order_status raises, or the
\* snapshot of paper-smoke raises or carries no price, or the command refuses
\* its other settings (the LLM configuration, an output file that exists)
Worlds ==
    {"ok", "connect_fails", "bad_arguments", "op_fails", "status_fails", "snapshot_fails",
     "no_price", "refused"}

NoBroker == [kind |-> "none"]

Out(cfg, broker, calls, exit) == [cfg |-> cfg, broker |-> broker, calls |-> calls, exit |-> exit]

\* _apply_cli_overrides passing require_paper through from the environment
_apply_cli_overrides_env(cfg, args) ==
    TradingConfig(cfg.broker, cfg.live_enabled, cfg.require_paper,
                  IF args.no_dry_run THEN FALSE ELSE IF args.dry_run THEN TRUE ELSE cfg.dry_run,
                  cfg.order_token, cfg.db_path)

_apply_cli_overrides(cfg, args) ==
    TradingConfig(cfg.broker, cfg.live_enabled, TRUE,
                  IF args.no_dry_run THEN FALSE ELSE IF args.dry_run THEN TRUE ELSE cfg.dry_run,
                  cfg.order_token, cfg.db_path)

_make_broker(kind, cfg) ==
    IF kind = "sim" THEN [kind |-> "sim"]
    ELSE IF kind = "ibkr" THEN [kind |-> "ibkr", require_paper |-> cfg.require_paper]
    ELSE Raise("InvalidInput")

\* _assert_ibkr_order_authorized without the comparison of the two tokens
_assert_ibkr_order_authorized_set(cfg, confirm_token) ==
    IF cfg.dry_run THEN [returned |-> None]
    ELSE IF ~cfg.live_enabled THEN Raise("SystemExit")
    ELSE IF cfg.order_token \in {None, ""} THEN Raise("SystemExit")
    ELSE [returned |-> None]

_assert_ibkr_order_authorized(cfg, confirm_token) ==
    IF cfg.dry_run THEN [returned |-> None]
    ELSE IF ~cfg.live_enabled THEN Raise("SystemExit")
    ELSE IF cfg.order_token \in {None, ""} THEN Raise("SystemExit")
    ELSE IF confirm_token # cfg.order_token THEN Raise("SystemExit")
    ELSE [returned |-> None]

\* Whether the command's broker operation raises.  The SimBroker a command
\* makes is empty: it knows no order id and holds no market data, it has no
\* bars to refuse and its place_bracket_order validates nothing.
OpFails(broker, op, world) ==
    IF broker.kind = "sim"
    THEN \/ op \in {"modify_order", "cancel_order", "get_order_status", "get_market_data_snapshot"}
         \/ op = "place_order" /\ world = "op_fails"
    ELSE world = "op_fails"

\* `if store and run_id is not None: ...`
IfStore(cfg, calls) == IF cfg.db_path \notin {None, ""} THEN calls ELSE <<>>

\* The frame the commands with an audit store share: open the store and start
\* the run, connect, run the body inside try, and in finally disconnect, end
\* the run and close the store.  connect() is called before the try.
WithStore(cfg, broker, world, body) ==
    LET opened == IfStore(cfg, <<"store.start_run">>) \o <<"broker.connect">>
    IN  IF broker.kind = "ibkr" /\ world = "connect_fails"
        THEN Out(cfg, broker, opened, "error")
        ELSE Out(cfg, broker,
                 opened \o body.calls \o <<"broker.disconnect">>
                        \o IfStore(cfg, <<"store.end_run", "store.close">>),
                 body.exit)

\* The status lookup that follows an order call when the store is open; its
\* exception is logged and swallowed
LogStatus(cfg, broker, world) ==
    IfStore(cfg, <<"broker.get_order_status",
                   IF broker.kind = "ibkr" /\ world = "status_fails" THEN "store.log_error"
                   ELSE "store.log_order_status_event">>)

Body(calls, exit) == [calls |-> calls, exit |-> exit]

_cmd_place_order(env, args, world) ==
    LET cfg == _apply_cli_overrides(env, args)
        auth == IF args.broker = "ibkr"
                THEN _assert_ibkr_order_authorized(cfg, args.confirm_token) ELSE [returned |-> None]
        broker == _make_broker(args.broker, cfg)
        body == IF world = "bad_arguments" THEN Body(<<>>, "error")
                ELSE IF cfg.dry_run THEN Body(IfStore(cfg, <<"store.log_decision">>), "0")
                ELSE IF OpFails(broker, "place_order", world)
                THEN Body(<<"broker.place_order">>, "error")
                ELSE Body(<<"broker.place_order">> \o IfStore(cfg, <<"store.log_order">>)
                              \o LogStatus(cfg, broker, world), "0")
    IN  IF IsRaised(auth) THEN Out(cfg, NoBroker, <<>>, "SystemExit")
        ELSE WithStore(cfg, broker, world, body)

_cmd_snapshot(env, args, world) ==
    LET cfg == _apply_cli_overrides(env, args)
        broker == _make_broker(args.broker, cfg)
        body == IF world = "bad_arguments" THEN Body(<<>>, "error")
                ELSE Body(<<"broker.get_market_data_snapshot">>,
                          IF OpFails(broker, "get_market_data_snapshot", world)
                          THEN "error" ELSE "0")
    IN  WithStore(cfg, broker, world, body)

_cmd_history(env, args, world) ==
    LET cfg == _apply_cli_overrides(env, args)
        broker == _make_broker(args.broker, cfg)
        body == IF world = "bad_arguments" THEN Body(<<>>, "error")
                ELSE Body(<<"broker.get_historical_bars">>,
                          IF OpFails(broker, "get_historical_bars", world) THEN "error" ELSE "0")
    IN  WithStore(cfg, broker, world, body)

\* The command hands the broker to the Engine (not among the sources), which
\* connects and trades through its own gates
_cmd_run(env, args, world) ==
    LET cfg1 == _apply_cli_overrides(env, args)
        cfg == TradingConfig(args.broker, cfg1.live_enabled, TRUE, cfg1.dry_run,
                             cfg1.order_token, cfg1.db_path)
        broker == _make_broker(args.broker, cfg)
    IN  Out(cfg, broker, <<"engine.run">>, IF world = "ok" THEN "0" ELSE "error")

_cmd_order_status(env, args, world) ==
    LET cfg == _apply_cli_overrides(env, args)
        broker == _make_broker(args.broker, cfg)
        body == IF OpFails(broker, "get_order_status", world)
                THEN Body(<<"broker.get_order_status">>, "error")
                ELSE Body(<<"broker.get_order_status">>
                              \o IfStore(cfg, <<"store.log_order_status_event">>), "0")
    IN  WithStore(cfg, broker, world, body)

_cmd_cancel_order(env, args, world) ==
    LET cfg == _apply_cli_overrides(env, args)
        broker == _make_broker(args.broker, cfg)
        body == IF OpFails(broker, "cancel_order", world)
                THEN Body(<<"broker.cancel_order">>, "error")
                ELSE Body(<<"broker.cancel_order">> \o LogStatus(cfg, broker, world), "0")
    IN  WithStore(cfg, broker, world, body)

_cmd_modify_order(env, args, world) ==
    LET cfg == _apply_cli_overrides(env, args)
        auth == IF args.broker = "ibkr"
                THEN _assert_ibkr_order_authorized(cfg, args.confirm_token) ELSE [returned |-> None]
        broker == _make_broker(args.broker, cfg)
        body == IF world = "bad_arguments" THEN Body(<<>>, "error")
                ELSE IF cfg.dry_run THEN Body(<<>>, "0")
                ELSE IF OpFails(broker, "modify_order", world)
                THEN Body(<<"broker.modify_order">>, "error")
                ELSE Body(<<"broker.modify_order">> \o IfStore(cfg, <<"store.log_order">>)
                              \o LogStatus(cfg, broker, world), "0")
    IN  IF IsRaised(auth) THEN Out(cfg, NoBroker, <<>>, "SystemExit")
        ELSE WithStore(cfg, broker, world, body)

_cmd_place_bracket(env, args, world) ==
    LET cfg == _apply_cli_overrides(env, args)
        auth == IF args.broker = "ibkr"
                THEN _assert_ibkr_order_authorized(cfg, args.confirm_token) ELSE [returned |-> None]
        broker == _make_broker(args.broker, cfg)
        body == IF world = "bad_arguments" THEN Body(<<>>, "error")
                ELSE IF cfg.dry_run THEN Body(IfStore(cfg, <<"store.log_error">>), "0")
                ELSE IF OpFails(broker, "place_bracket_order", world)
                THEN Body(<<"broker.place_bracket_order">>, "error")
                ELSE Body(<<"broker.place_bracket_order">>
                              \o IfStore(cfg, <<"store.log_error">>), "0")
    IN  IF IsRaised(auth) THEN Out(cfg, NoBroker, <<>>, "SystemExit")
        ELSE WithStore(cfg, broker, world, body)

_cmd_paper_smoke(env, args, world) ==
    LET cfg == _apply_cli_overrides(env, args)
        broker == _make_broker("ibkr", cfg)
        auth == _assert_ibkr_order_authorized(cfg, args.confirm_token)
        snapshot == <<"broker.get_market_data_snapshot">>
        test == <<"broker.place_order", "broker.cancel_order", "broker.get_order_status">>
        body == IF world = "bad_arguments" THEN Body(<<>>, "error")
                ELSE IF world = "snapshot_fails" THEN Body(snapshot, "error")
                ELSE IF ~args.order_test THEN Body(snapshot, "0")
                ELSE IF IsRaised(auth) THEN Body(snapshot, "SystemExit")
                ELSE IF world = "no_price" THEN Body(snapshot, "SystemExit")
                ELSE IF cfg.dry_run THEN Body(snapshot, "0")
                ELSE IF world = "op_fails"
                THEN Body(snapshot \o <<"broker.place_order">>, "error")
                ELSE Body(snapshot \o test, IF world = "status_fails" THEN "error" ELSE "0")
    IN  IF args.broker # "ibkr" THEN Out(cfg, NoBroker, <<>>, "SystemExit")
        ELSE WithStore(cfg, broker, world, body)

\* oms-reconcile: the OrderManager (not among the sources) is given the
\* connected broker and closed in an inner finally
_cmd_oms_reconcile(env, args, world) ==
    LET cfg == _apply_cli_overrides(env, args)
        broker == _make_broker(args.broker, cfg)
    IN  IF cfg.db_path \in {None, ""} THEN Out(cfg, NoBroker, <<>>, "SystemExit")
        ELSE IF broker.kind = "ibkr" /\ world = "connect_fails"
        THEN Out(cfg, broker, <<"broker.connect">>, "error")
        ELSE Out(cfg, broker,
                 <<"broker.connect", "oms.reconcile", "oms.close", "broker.disconnect">>,
                 IF world = "op_fails" THEN "error" ELSE "0")

_cmd_oms_track(env, args, world) ==
    LET cfg == _apply_cli_overrides(env, args)
        broker == _make_broker(args.broker, cfg)
        work == IF world = "op_fails" THEN <<"oms.reconcile">>
                ELSE <<"oms.reconcile", "oms.track_open_orders">>
    IN  IF cfg.db_path \in {None, ""} THEN Out(cfg, NoBroker, <<>>, "SystemExit")
        ELSE IF broker.kind = "ibkr" /\ world = "connect_fails"
        THEN Out(cfg, broker, <<"broker.connect">>, "error")
        ELSE Out(cfg, broker,
                 <<"broker.connect">> \o work \o <<"oms.close", "broker.disconnect">>,
                 IF world = "op_fails" THEN "error" ELSE "0")

_cmd_export_history(env, args, world) ==
    LET cfg == _apply_cli_overrides(env, args)
        broker == _make_broker("ibkr", cfg)
    IN  IF args.broker # "ibkr" \/ world = "refused" THEN Out(cfg, NoBroker, <<>>, "SystemExit")
        ELSE IF world = "connect_fails" THEN Out(cfg, broker, <<"broker.connect">>, "error")
        ELSE IF world = "bad_arguments"
        THEN Out(cfg, broker, <<"broker.connect", "broker.disconnect">>, "error")
        ELSE Out(cfg, broker,
                 <<"broker.connect", "export_historical_bars", "broker.disconnect">>,
                 IF world = "op_fails" THEN "error" ELSE "0")

\* The command hands the broker to the LLMTrader (not among the sources)
_cmd_llm_run(env, args, world) ==
    LET cfg == _apply_cli_overrides(env, args)
        auth == IF args.broker = "ibkr"
                THEN _assert_ibkr_order_authorized(cfg, args.confirm_token) ELSE [returned |-> None]
        broker == _make_broker(args.broker, cfg)
    IN  IF world = "refused" \/ IsRaised(auth) THEN Out(cfg, NoBroker, <<>>, "SystemExit")
        ELSE Out(cfg, broker, <<"trader.run">>, IF world = "ok" THEN "0" ELSE "error")

\* llm/chat.py main, which the chat command calls with its --broker and
\* --confirm-token; it does not read --dry-run / --no-dry-run
chat_main(env, args, world) ==
    LET cfg == TradingConfig(IF args.broker # None THEN args.broker ELSE env.broker,
                             env.live_enabled, TRUE, env.dry_run, env.order_token, env.db_path)
        broker == IF cfg.broker = "sim" THEN [kind |-> "sim"]
                  ELSE [kind |-> "ibkr", require_paper |-> TRUE]
        seeded == IF cfg.broker = "sim"
                  THEN <<"broker.connect", "broker.set_market_data", "broker.disconnect">>
                  ELSE <<>>
    IN  IF world = "refused" THEN Out(cfg, NoBroker, <<>>, "SystemExit")
        ELSE IF broker.kind = "ibkr" /\ world = "connect_fails"
        THEN Out(cfg, broker, <<"broker.connect">>, "error")
        ELSE Out(cfg, broker,
                 seeded \o <<"broker.connect", "chat.session", "broker.disconnect">>,
                 IF world = "op_fails" THEN "error" ELSE "0")

\* The sub-commands of build_parser
Commands ==
    {"place-order", "snapshot", "history", "run", "order-status", "cancel-order",
     "modify-order", "place-bracket", "paper-smoke", "oms-reconcile", "oms-track",
     "export-history", "llm-run", "chat"}

\* args.func(args): the handler set_defaults(func=...) attached to the sub-command
func(cmd, env, args, world) ==
    CASE cmd = "place-order" -> _cmd_place_order(env, args, world)
      [] cmd = "snapshot" -> _cmd_snapshot(env, args, world)
      [] cmd = "history" -> _cmd_history(env, args, world)
      [] cmd = "run" -> _cmd_run(env, args, world)
      [] cmd = "order-status" -> _cmd_order_status(env, args, world)
      [] cmd = "cancel-order" -> _cmd_cancel_order(env, args, world)
      [] cmd = "modify-order" -> _cmd_modify_order(env, args, world)
      [] cmd = "place-bracket" -> _cmd_place_bracket(env, args, world)
      [] cmd = "paper-smoke" -> _cmd_paper_smoke(env, args, world)
      [] cmd = "oms-reconcile" -> _cmd_oms_reconcile(env, args, world)
      [] cmd = "oms-track" -> _cmd_oms_track(env, args, world)
      [] cmd = "export-history" -> _cmd_export_history(env, args, world)
      [] cmd = "llm-run" -> _cmd_llm_run(env, args, world)
      [] cmd = "chat" -> chat_main(env, args, world)

CliInit ==
    /\ cli_cmd = "none"
    /\ cli_env = TradingConfig("sim", FALSE, TRUE, TRUE, None, None)
    /\ cli_args = [broker |-> None, dry_run |-> FALSE, no_dry_run |-> FALSE,
                   confirm_token |-> None, order_test |-> FALSE]
    /\ cli_cfg = TradingConfig("sim", FALSE, TRUE, TRUE, None, None)
    /\ cli_broker = NoBroker
    /\ cli_calls = <<>>
    /\ cli_exit = "none"

\* One run of a command from the shell: main parses the arguments and calls
\* the handler.  Only chat may leave --broker out and only paper-smoke has
\* --order-test.
CliMain ==
    /\ cli_cmd = "none"
    /\ \E cmd \in Commands, env \in EnvConfigs, world \in Worlds :
        \E args \in CliArgs({"sim", "ibkr"} \cup (IF cmd = "chat" THEN {None} ELSE {}),
                            IF cmd = "paper-smoke" THEN BOOLEAN ELSE {FALSE}) :
            LET out == func(cmd, env, args, world)
            IN  /\ cli_cmd' = cmd
                /\ cli_env' = env
                /\ cli_args' = args
                /\ cli_cfg' = out.cfg
                /\ cli_broker' = out.broker
                /\ cli_calls' = out.calls
                /\ cli_exit' = out.exit
                /\ UNCHANGED exceptCli

\* The process has exited; the shell is ready for the next command
CliExit ==
    /\ cli_cmd # "none"
    /\ cli_cmd' = "none"
    /\ cli_env' = TradingConfig("sim", FALSE, TRUE, TRUE, None, None)
    /\ cli_args' = [broker |-> None, dry_run |-> FALSE, no_dry_run |-> FALSE,
                    confirm_token |-> None, order_test |-> FALSE]
    /\ cli_cfg' = TradingConfig("sim", FALSE, TRUE, TRUE, None, None)
    /\ cli_broker' = NoBroker
    /\ cli_calls' = <<>>
    /\ cli_exit' = "none"
    /\ UNCHANGED exceptCli

CliNext ==
    \/ CliMain
    \/ CliExit

-----------------------------------------------------------------------------
(* The tool dispatcher (llm/tools.py) as a chat session calls it
   (llm/chat.py, ChatSession._execute_tool).  The session's broker is a
   connected SimBroker held in tl_broker; tl_events lists, in order, what
   the last dispatch called. *)

\* trading_algo.oms.OrderManager (not among the sources; modelled from the
\* specification, section 4.13): built from a broker, a TradingConfig and a
\* confirm token.  The live/dry-run/token gate of submit, modify and cancel
OrderManager_gate(trading, confirm_token) ==
    IF trading.broker # "ibkr" \/ trading.dry_run THEN [returned |-> None]
    ELSE IF ~trading.live_enabled THEN Raise("RuntimeError")
    ELSE IF trading.order_token \in {None, ""} THEN Raise("RuntimeError")
    ELSE IF confirm_token # trading.order_token THEN Raise("RuntimeError")
    ELSE [returned |-> None]

Done(b, events, result) == [broker |-> [b EXCEPT !.result = None], events |-> events, result |-> result]

\* The outcome of a dispatch that ended with a broker call
Called(after, events) == Done(after, events, after.result)

\* OrderManager.submit / modify / cancel: the gate, then nothing more under
\* dry_run, else the broker call, whose error propagates
OrderManager_submit(b, trading, confirm_token, req) ==
    LET gate == OrderManager_gate(trading, confirm_token)
        after == Sim_place_order(b, req)
    IN  IF IsRaised(gate) THEN Done(b, <<"oms.submit">>, gate)
        ELSE IF trading.dry_run
        THEN Done(b, <<"oms.submit">>, [order_id |-> None, status |-> "DryRun"])
        ELSE Called(after, <<"oms.submit", "broker.place_order">>)

OrderManager_modify(b, trading, confirm_token, order_id, req) ==
    LET gate == OrderManager_gate(trading, confirm_token)
        after == Sim_modify_order(b, order_id, req)
    IN  IF IsRaised(gate) THEN Done(b, <<"oms.modify">>, gate)
        ELSE IF trading.dry_run
        THEN Done(b, <<"oms.modify">>, [order_id |-> None, status |-> "DryRun"])
        ELSE Called(after, <<"oms.modify", "broker.modify_order">>)

OrderManager_cancel(b, trading, confirm_token, order_id) ==
    LET gate == OrderManager_gate(trading, confirm_token)
        after == Sim_cancel_order(b, order_id)
    IN  IF IsRaised(gate) THEN Done(b, <<"oms.cancel">>, gate)
        ELSE IF trading.dry_run THEN Done(b, <<"oms.cancel">>, [returned |-> None])
        ELSE Called(after, <<"oms.cancel", "broker.cancel_order">>)

\* float(x) of a JSON value: a number, or a text that is no number (ValueError)
float(x) == IF DOMAIN x = {"num"} THEN [value |-> x.num] ELSE Raise("InvalidInput")

NotObject == [notdict |-> TRUE]

\* The empty string as an order id
EmptyId == [prefix |-> "", uuid |-> 0]

_parse_instrument(obj) ==
    LET kind == upper(strip(obj.kind))
        symbol == upper(strip(obj.symbol))
    IN  IF symbol = "" THEN Raise("ToolError")
        ELSE validate_instrument(InstrumentSpec(kind, symbol))

_parse_order_request(order_obj) ==
    IF order_obj = NotObject THEN Raise("ToolError")
    ELSE IF order_obj.instrument = NotObject THEN Raise("ToolError")
    ELSE LET inst == _parse_instrument(order_obj.instrument)
             quantity == float(order_obj.qty)
         IN  IF IsRaised(inst) THEN inst
             ELSE IF IsRaised(quantity) THEN quantity
             ELSE normalized(OrderRequest(inst, upper(strip(order_obj.side)), quantity.value,
                                          upper(strip(order_obj.type)), order_obj.limit_price,
                                          Nil, "DAY", None))

\* _enforce_allowlist without the check of the symbol
_enforce_allowlist_kinds(inst, allowed_kinds, allowed_symbols) ==
    IF upper(inst.kind) \notin {upper(k) : k \in allowed_kinds} THEN Raise("ToolError")
    ELSE [returned |-> None]

_enforce_allowlist(inst, allowed_kinds, allowed_symbols) ==
    IF upper(inst.kind) \notin {upper(k) : k \in allowed_kinds} THEN Raise("ToolError")
    ELSE IF allowed_symbols # {} /\ upper(inst.symbol) \notin {upper(s) : s \in allowed_symbols}
    THEN Raise("ToolError")
    ELSE [returned |-> None]

\* The place_order and modify_order branches after req =
\* _parse_order_request(...): the allow-list, then the OMS
OrderTool(b, trading, confirm_token, allowed_kinds, allowed_symbols, op, order_id, req) ==
    LET allowed == _enforce_allowlist(req.instrument, allowed_kinds, allowed_symbols)
    IN  IF IsRaised(req) THEN Done(b, <<"_parse_order_request">>, req)
        ELSE IF IsRaised(allowed)
        THEN Done(b, <<"_parse_order_request", "_enforce_allowlist">>, allowed)
        ELSE LET oms == IF op = "place_order"
                        THEN OrderManager_submit(b, trading, confirm_token, req)
                        ELSE OrderManager_modify(b, trading, confirm_token, order_id, req)
             IN  [oms EXCEPT !.events = <<"_parse_order_request", "_enforce_allowlist">> \o @]

dispatch_tool(call, b, trading, confirm_token, allowed_kinds, allowed_symbols) ==
    LET name == strip(call.name)
        args == call.args
    IN  CASE name = "get_snapshot" ->
               LET inst == _parse_instrument(args)
                   allowed == _enforce_allowlist(inst, allowed_kinds, allowed_symbols)
               IN  IF IsRaised(inst) THEN Done(b, <<"_parse_instrument">>, inst)
                   ELSE IF IsRaised(allowed)
                   THEN Done(b, <<"_parse_instrument", "_enforce_allowlist">>, allowed)
                   ELSE Done(b, <<"_parse_instrument", "_enforce_allowlist",
                                  "broker.get_market_data_snapshot">>,
                             Sim_read(b, "get_market_data_snapshot").result)
          [] name = "get_positions" ->
               Done(b, <<"broker.get_positions">>, Sim_read(b, "get_positions").result)
          [] name = "get_account" ->
               Done(b, <<"broker.get_account_snapshot">>,
                    Sim_read(b, "get_account_snapshot").result)
          [] name = "list_open_orders" ->
               Done(b, <<"broker.list_open_order_statuses">>,
                    Sim_list_open_order_statuses(b).result)
          \* place_order (64-68) and modify_order (70-77): the same steps after
          \* modify_order's test of its order_id
          [] name \in {"place_order", "modify_order"} ->
               IF name = "modify_order" /\ args.order_id = EmptyId
               THEN Done(b, <<>>, Raise("ToolError"))
               ELSE OrderTool(b, trading, confirm_token, allowed_kinds, allowed_symbols,
                              name, args.order_id, _parse_order_request(args.order))
          [] name = "cancel_order" ->
               IF args.order_id = EmptyId THEN Done(b, <<>>, Raise("ToolError"))
               ELSE LET oms == OrderManager_cancel(b, trading, confirm_token, args.order_id)
                    IN  IF IsRaised(oms.result) THEN oms
                        ELSE [oms EXCEPT !.result = [order_id |-> args.order_id,
                                                     status |-> "CancelRequested"]]
          [] name = "oms_reconcile" ->
               Done(b, <<"oms.reconcile", "broker.list_open_order_statuses">>,
                    Sim_list_open_order_statuses(b).result)
          [] name = "oms_track" ->
               Done(b, <<"oms.track_open_orders", "broker.list_open_order_statuses">>,
                    [ok |-> TRUE])
          [] OTHER -> Done(b, <<>>, Raise("ToolError"))

\* A tool call as the model's reply carries it; keys a call leaves out are
\* given the value args.get() defaults to
ToolCall(name, order_id, order, kind, symbol) ==
    [name |-> name, args |-> [order_id |-> order_id, order |-> order, kind |-> kind, symbol |-> symbol]]

ToolOrder(kind, symbol, side, qty, type, limit_price) ==
    [instrument |-> [kind |-> kind, symbol |-> symbol], side |-> side, qty |-> qty,
     type |-> type, limit_price |-> limit_price]

\* The orders the tool calls carry: valid ones for two symbols (one spelled
\* in lower case with a blank), an order with a quantity that is no number,
\* one with a non-positive quantity, one of a kind that does not exist, one
\* without a symbol, one without an instrument and one that is no object
ToolOrders ==
    { ToolOrder("STK", "AAPL", "BUY", [num |-> 1], "MKT", Nil),
      ToolOrder("stk", " tsla", " buy", [num |-> 1], "lmt", Some(99)),
      ToolOrder("STK", "TSLA", "BUY", [text |-> "abc"], "MKT", Nil),
      ToolOrder("STK", "AAPL", "BUY", [num |-> 0], "MKT", Nil),
      ToolOrder("opt", "AAPL", "BUY", [num |-> 1], "MKT", Nil),
      ToolOrder("STK", "", "BUY", [num |-> 1], "MKT", Nil),
      [instrument |-> NotObject, side |-> "BUY", qty |-> [num |-> 1], type |-> "MKT",
       limit_price |-> Nil],
      NotObject }

ToolCalls ==
    { ToolCall("place_order", EmptyId, order, "STK", "") : order \in ToolOrders }
    \cup { ToolCall("modify_order", order_id, order, "STK", "") :
              order_id \in {SimId(1), SimId(0), EmptyId},
              order \in { ToolOrder("STK", "AAPL", "SELL", [num |-> 2], "MKT", Nil),
                          ToolOrder("STK", "TSLA", "SELL", [num |-> 2], "MKT", Nil) } }
    \cup { ToolCall("cancel_order", order_id, NotObject, "STK", "") :
              order_id \in {SimId(1), SimId(0), EmptyId} }
    \cup { ToolCall("get_snapshot", EmptyId, NotObject, "STK", symbol) :
              symbol \in {"AAPL", "tsla", ""} }
    \cup { ToolCall(name, EmptyId, NotObject, "STK", "") :
              name \in {"get_positions", "get_account", "list_open_orders", "oms_reconcile",
                        "oms_track", "rm_rf"} }

\* The sessions: a simulator configuration with dry_run off and on, and a
\* gateway configuration with the live gate open and shut
SessionConfigs ==
    { TradingConfig("sim", FALSE, TRUE, FALSE, None, None),
      TradingConfig("sim", FALSE, TRUE, TRUE, None, None),
      TradingConfig("ibkr", TRUE, TRUE, FALSE, "tok", None),
      TradingConfig("ibkr", FALSE, TRUE, FALSE, "tok", None) }

\* LLMConfig.allowed_symbols() / allowed_kinds() (llm/config.py is not among
\* the sources): the sets given to dispatch_tool
AllowedSymbols == { {"AAPL"}, {"aapl", "TSLA"}, {} }

AllowedKinds == { {"STK"}, {"stk", "FUT"}, {"FX"} }

ToolsInit ==
    /\ tl_trading = TradingConfig("sim", FALSE, TRUE, FALSE, None, None)
    /\ tl_confirm_token = None
    /\ tl_allowed_kinds = {"STK"}
    /\ tl_allowed_symbols = {"AAPL"}
    /\ tl_broker = SimState(TRUE, <<>>, <<>>, 0, None)
    /\ tl_call = ToolCall("none", EmptyId, NotObject, "STK", "")
    /\ tl_events = <<>>
    /\ tl_ret = [returned |-> None]

\* The brokers a session starts on: a freshly connected SimBroker, and one
\* on which an order for TSLA was placed before the session and is working
\* (place_order, then _inject_order_status with the status Submitted)
SessionBrokers ==
    { SimState(TRUE, <<>>, <<>>, 0, None),
      [Sim_inject_order_status(
           Sim_place_order(SimState(TRUE, <<>>, <<>>, 0, None),
                           OrderRequest(TSLA, "BUY", 1, "LMT", Some(99), Nil, "DAY", None)),
           OrderStatus(SimId(1), "Submitted", Some(0), Some(1), Nil))
         EXCEPT !.result = None] }

\* A new ChatSession on a connected SimBroker
ChatSession ==
    \E trading \in SessionConfigs, confirm_token \in {None, "tok"},
       allowed_kinds \in AllowedKinds, allowed_symbols \in AllowedSymbols,
       broker \in SessionBrokers :
        /\ tl_trading' = trading
        /\ tl_confirm_token' = confirm_token
        /\ tl_allowed_kinds' = allowed_kinds
        /\ tl_allowed_symbols' = allowed_symbols
        /\ tl_broker' = broker
        /\ tl_call' = ToolCall("none", EmptyId, NotObject, "STK", "")
        /\ tl_events' = <<>>
        /\ tl_ret' = [returned |-> None]
        /\ UNCHANGED exceptTools

\* ChatSession._execute_tool: one tool call of the model's reply
_execute_tool ==
    /\ Len(tl_broker.orders) < MaxSimOrders
    /\ \E call \in ToolCalls :
        \E out \in {dispatch_tool(call, tl_broker, tl_trading, tl_confirm_token,
                                  tl_allowed_kinds, tl_allowed_symbols)} :
            /\ tl_broker' = out.broker
            /\ tl_call' = call
            /\ tl_events' = out.events
            /\ tl_ret' = out.result
            /\ UNCHANGED <<tl_trading, tl_confirm_token, tl_allowed_kinds, tl_allowed_symbols,
                           exceptTools>>

ToolsNext ==
    \/ ChatSession
    \/ _execute_tool

-----------------------------------------------------------------------------
(* backtest/runner.py: run_backtest.  The strategy is the list of intents
   its on_tick returns at each tick; trading_algo.risk, trading_algo.orders
   and trading_algo.oms are not among the sources and are modelled from the
   specification (sections 4.10, 4.11, 4.13). *)

Pending == [pending |-> TRUE]

\* The other components as constructed
Components == SimInit /\ BtInit /\ IbInit /\ CliInit /\ ToolsInit

BacktestConfig(commission_per_order, slippage_bps) ==
    [initial_cash |-> initial_cash, commission_per_order |-> commission_per_order,
     slippage_bps |-> slippage_bps, db_path |-> None]

TradeIntent(instrument, side, quantity, order_type, limit_price) ==
    [instrument |-> instrument, side |-> side, quantity |-> quantity,
     order_type |-> order_type, limit_price |-> limit_price]

\* TradeIntent.to_order_request
to_order_request(intent) ==
    OrderRequest(intent.instrument, intent.side, intent.quantity, intent.order_type,
                 intent.limit_price, Nil, "DAY", None)

\* RiskManager.validate: raises a risk rejection for the intents the limits
\* reject; which ones they are is the world's choice
RiskManager_validate(intent, world) ==
    IF intent \in world.rejected THEN Raise("RiskError") ELSE [returned |-> None]

\* The order in which list(self._open) yields the open orders
RECURSIVE OpenOrder(_, _)
OpenOrder(open, world) ==
    IF open = {} THEN <<>>
    ELSE LET oid == CHOOSE x \in open : \A y \in open :
                        IF world.ascending THEN x.uuid <= y.uuid ELSE x.uuid >= y.uuid
         IN  <<oid>> \o OpenOrder(open \ {oid}, world)

Decision(intent, accepted, reason) ==
    [intent |-> intent, accepted |-> accepted, reason |-> reason]

\* try_intent without the except clause's log_decision
try_intent_silent(run, intent, risk, gate, placed) ==
    IF IsRaised(risk) \/ IsRaised(gate) \/ IsRaised(placed.result) THEN run
    ELSE [run EXCEPT !.broker = placed,
                     !.decisions = Append(@, Decision(intent, TRUE, "backtest"))]

\* One intent (lines 60-65): risk.validate, the accepted decision and
\* oms.submit, whose gate passes for the "sim" configuration before the order
\* is placed on the broker; any exception is logged as a rejected decision
try_intent(run, intent, risk, gate, placed) ==
    IF IsRaised(risk)
    THEN [run EXCEPT !.decisions = Append(@, Decision(intent, FALSE, risk.raised))]
    ELSE IF IsRaised(gate)
    THEN [run EXCEPT !.decisions = @ \o << Decision(intent, TRUE, "backtest"),
                                           Decision(intent, FALSE, gate.raised) >>]
    ELSE IF IsRaised(placed.result)
    THEN [run EXCEPT !.decisions = @ \o << Decision(intent, TRUE, "backtest"),
                                           Decision(intent, FALSE, placed.result.raised) >>]
    ELSE [run EXCEPT !.broker = placed,
                     !.decisions = Append(@, Decision(intent, TRUE, "backtest"))]

\* The loop over the intents of one tick (line 59)
RECURSIVE for_intent(_, _, _)
for_intent(run, intents, world) ==
    IF intents = <<>> THEN run
    ELSE for_intent(try_intent(run, Head(intents), RiskManager_validate(Head(intents), world),
                               OrderManager_gate(TradingConfig("sim", TRUE, TRUE, FALSE, None, None), None),
                               Bt_place_order(run.broker, to_order_request(Head(intents)))),
                    Tail(intents), world)

\* What a tick shows the strategy (lines 56-57): now_epoch_s of
\* broker.current_bar() and the snapshot ctx.get_snapshot fetches
StrategyContext(broker) ==
    [now_epoch_s |-> current_bar(broker).timestamp_epoch_s,
     snapshot |-> Bt_get_market_data_snapshot(broker, broker.instrument).result]

\* One pass of the loop over the bars (lines 56-66): the context, the
\* intents of the tick, then broker.step()
on_tick(run, strategy, world) ==
    [for_intent([run EXCEPT !.contexts = Append(@, StrategyContext(run.broker))],
                IF run.ticks + 1 \in DOMAIN strategy THEN strategy[run.ticks + 1] ELSE <<>>,
                world)
        EXCEPT !.broker = Bt_step(@, OpenOrder(@.open, world)), !.ticks = @ + 1]

\* The loop over the bars (lines 55-67), left when step() returns False
RECURSIVE while_true(_, _, _)
while_true(run, strategy, world) ==
    LET after == on_tick(run, strategy, world)
    IN  IF after.broker.result.more THEN while_true(after, strategy, world) ELSE after

BacktestResult(start_equity, end_equity) ==
    [start_equity |-> start_equity, end_equity |-> end_equity,
     return_pct |-> IF start_equity # 0 THEN Rat((end_equity - start_equity) * 100, start_equity)
                    ELSE <<0, 1>>]

\* The end of run_backtest (lines 68-74): what it returns, with the decisions
\* logged, the ticks made and the broker as the run left it
return(start_equity, run) ==
    [result |-> BacktestResult(start_equity,
                               Bt_get_account_snapshot(run.broker).result.NetLiquidation),
     decisions |-> run.decisions, ticks |-> run.ticks, contexts |-> run.contexts,
     broker |-> [run.broker EXCEPT !.connected = FALSE]]

run_backtest(strategy, instrument, bars, cfg, world) ==
    LET broker == Bt_connect([BtNew(FillModel(cfg.commission_per_order, cfg.slippage_bps))
                                 EXCEPT !.instrument = instrument, !.bars = bars])
    IN  return(Bt_get_account_snapshot(broker).result.NetLiquidation,
               while_true([broker |-> broker, decisions |-> <<>>, ticks |-> 0, contexts |-> <<>>],
                          strategy, world))

\* The intents a strategy emits: market buys of 1 and of 3, a sale of 2, a
\* limit order, a quantity of 0 and another instrument (both refused by
\* place_order)
Intents ==
    [buy |-> TradeIntent(AAPL, "BUY", 1, "MKT", Nil),
     buy3 |-> TradeIntent(AAPL, "BUY", 3, "MKT", Nil),
     sell |-> TradeIntent(AAPL, "SELL", 2, "MKT", Nil),
     limit |-> TradeIntent(AAPL, "BUY", 1, "LMT", Some(200)),
     zero |-> TradeIntent(AAPL, "BUY", 0, "MKT", Nil),
     other |-> TradeIntent(TSLA, "BUY", 1, "MKT", Nil)]

\* The arguments of a run: the first one, two or three bars, at each tick one
\* of six lists of intents, the fill models (and a commission without
\* slippage), and the world's choices
RunBacktestArgs ==
    LET TickIntents == { <<>>, <<Intents.buy>>, <<Intents.buy3>>, <<Intents.zero, Intents.buy>>,
                         <<Intents.sell, Intents.limit>>, <<Intents.other>> }
    IN  { [strategy |-> strategy, instrument |-> AAPL, bars |-> SubSeq(BtBars, 1, n),
           cfg |-> BacktestConfig(fm.commission_per_order, fm.slippage_bps),
           world |-> [rejected |-> rejected, ascending |-> ascending]] :
            n \in 1..Len(BtBars), fm \in FillModels \cup {FillModel(2, 0)}, rejected \in {{}, {Intents.sell}},
            ascending \in BOOLEAN,
            strategy \in UNION { [1..k -> TickIntents] : k \in 1..Len(BtBars) } }

RunBacktestInit ==
    /\ Components
    /\ fn_args \in { a \in RunBacktestArgs : Len(a.strategy) = Len(a.bars) }
    /\ fn_ret = Pending

RunBacktest ==
    /\ fn_ret = Pending
    /\ fn_ret' = run_backtest(fn_args.strategy, fn_args.instrument, fn_args.bars, fn_args.cfg,
                              fn_args.world)
    /\ UNCHANGED <<fn_args, exceptFn>>

-----------------------------------------------------------------------------
(* backtest/export.py and backtest/data.py: export_historical_bars against
   the paginating broker of tests/test_backtest_export.py, and load_bars_csv
   on the file it wrote.  Times are in tenths of a second, so that int() has
   something to truncate; a CSV cell holding the text of the number n is
   [num |-> n], an empty cell is [text |-> ""]; an end_datetime of None is
   NoArg. *)

\* The largest max_calls drawn
MaxCalls == 4

\* int(x): truncation toward zero, of a time in tenths of a second
int(x) == IF x >= 0 THEN (x \div 10) * 10 ELSE -(((-x) \div 10) * 10)

\* list.sort(key=lambda b: b.timestamp_epoch_s): stable
RECURSIVE sort(_)
sort(bars) ==
    IF Len(bars) <= 1 THEN bars
    ELSE LET front == sort(SubSeq(bars, 1, Len(bars) - 1))
             b == bars[Len(bars)]
             k == Cardinality({ i \in 1..Len(front) :
                                  front[i].timestamp_epoch_s <= b.timestamp_epoch_s })
         IN  SubSeq(front, 1, k) \o <<b>> \o SubSeq(front, k + 1, Len(front))

\* The brokers the export is run against: the paginating broker of the
\* tests and a connected SimBroker whose historical_bars hold the series
HistoryBrokers == {"_FakeHistoryBroker", "SimBroker"}

\* _FakeHistoryBroker.get_historical_bars with pages of p bars: the last p
\* bars of the series with timestamp <= float(end_datetime).
\* SimBroker.get_historical_bars: the whole series, whatever end_datetime is
get_historical_bars(broker, source, end_datetime, p) ==
    LET eligible == IF end_datetime = NoArg THEN source
                    ELSE SelectSeq(source, LAMBDA b : b.timestamp_epoch_s <= float(end_datetime).value)
    IN  IF broker = "SimBroker" THEN source
        ELSE SubSeq(eligible, IF Len(eligible) > p THEN Len(eligible) - p + 1 ELSE 1,
                    Len(eligible))

\* Lines 50-54: the bars of the chunk whose timestamp is new are appended
RECURSIVE deduplicate(_, _)
deduplicate(all_bars, chunk) ==
    IF chunk = <<>> THEN all_bars
    ELSE deduplicate(IF \E i \in 1..Len(all_bars) :
                           all_bars[i].timestamp_epoch_s = Head(chunk).timestamp_epoch_s
                     THEN all_bars ELSE Append(all_bars, Head(chunk)),
                     Tail(chunk))

\* Lines 47-59 with the next call asking for the earliest bar again
with_chunk_same_end(st, chunk) ==
    IF chunk = <<>> THEN [st EXCEPT !.stop = TRUE]
    ELSE [st EXCEPT !.all_bars = sort(deduplicate(@, chunk)),
                    !.end_dt = [num |-> int(sort(deduplicate(st.all_bars, chunk))[1].timestamp_epoch_s)]]

\* Lines 47-59: an empty chunk ends the loop; else the chunk is merged, the
\* bars are sorted and end_dt becomes str(int(earliest) - 1)
with_chunk(st, chunk) ==
    IF chunk = <<>> THEN [st EXCEPT !.stop = TRUE]
    ELSE [st EXCEPT !.all_bars = sort(deduplicate(@, chunk)),
                    !.end_dt = [num |-> int(sort(deduplicate(st.all_bars, chunk))[1].timestamp_epoch_s) - 10]]

\* The loop without its `break`: max_calls calls whatever they return
RECURSIVE for_range_through(_, _, _, _, _)
for_range_through(st, broker, source, p, calls) ==
    IF calls = 0 THEN st
    ELSE for_range_through(with_chunk([st EXCEPT !.asked = Append(@, st.end_dt)],
                                      get_historical_bars(broker, source, st.end_dt, p)),
                           broker, source, p, calls - 1)

\* for _ in range(int(cfg.max_calls)) (lines 38-60); st.asked lists the
\* end_datetime of every call made
RECURSIVE for_range(_, _, _, _, _)
for_range(st, broker, source, p, calls) ==
    IF calls = 0 \/ st.stop THEN st
    ELSE for_range(with_chunk([st EXCEPT !.asked = Append(@, st.end_dt)],
                              get_historical_bars(broker, source, st.end_dt, p)),
                   broker, source, p, calls - 1)

\* export_historical_bars: the list returned (all_bars sorted, line 63), the
\* file written (lines 64-77: the header and one row a bar) and the
\* end_datetime of each call
export_historical_bars(broker, source, p, max_calls) ==
    LET st == for_range([all_bars |-> <<>>, end_dt |-> NoArg, asked |-> <<>>, stop |-> FALSE],
                        broker, source, p, max_calls)
        all_bars == sort(st.all_bars)
    IN  [bars |-> all_bars,
         csv |-> [fieldnames |-> {"timestamp", "open", "high", "low", "close", "volume"},
                  rows |-> [i \in 1..Len(all_bars) |->
                     [timestamp |-> [num |-> int(all_bars[i].timestamp_epoch_s)],
                      open |-> [num |-> all_bars[i].open], high |-> [num |-> all_bars[i].high],
                      low |-> [num |-> all_bars[i].low], close |-> [num |-> all_bars[i].close],
                      volume |-> IF all_bars[i].volume = Nil THEN [text |-> ""]
                                 ELSE [num |-> Val(all_bars[i].volume)]]]],
         asked |-> st.asked]

\* _parse_timestamp: an empty cell and a text that is neither a number nor
\* an ISO date are ValueErrors
_parse_timestamp(value) ==
    IF value = [text |-> ""] THEN Raise("InvalidInput")
    ELSE IF ~IsRaised(float(value)) THEN float(value)
    ELSE IF DOMAIN value = {"iso"} THEN [value |-> value.iso]
    ELSE Raise("InvalidInput")

\* load_bars_csv with every row read as a bar whose volume is 0 when absent
load_bars_csv_zero(csv) ==
    [bars |-> sort([i \in 1..Len(csv.rows) |->
             [timestamp_epoch_s |-> _parse_timestamp(csv.rows[i].timestamp).value,
              open |-> float(csv.rows[i].open).value, high |-> float(csv.rows[i].high).value,
              low |-> float(csv.rows[i].low).value, close |-> float(csv.rows[i].close).value,
              volume |-> IF IsRaised(float(csv.rows[i].volume)) THEN Some(0)
                         ELSE Some(float(csv.rows[i].volume).value)]])]

\* load_bars_csv: the bars of the file sorted by timestamp, or the ValueError
\* of a missing column or of a cell that does not parse
load_bars_csv(csv) ==
    LET row(i) == csv.rows[i]
        cells(i) == << _parse_timestamp(row(i).timestamp), float(row(i).open), float(row(i).high),
                       float(row(i).low), float(row(i).close) >>
        v_raw(i) == IF "volume" \in DOMAIN row(i) THEN row(i).volume ELSE [text |-> ""]
        absent(i) == v_raw(i) \in {[text |-> ""], [text |-> "null"], [text |-> "None"]}
    IN  IF ~({"timestamp", "open", "high", "low", "close"} \subseteq csv.fieldnames)
        THEN Raise("InvalidInput")
        ELSE IF \E i \in 1..Len(csv.rows) :
                   \/ \E c \in 1..5 : IsRaised(cells(i)[c])
                   \/ ~absent(i) /\ IsRaised(float(v_raw(i)))
        THEN Raise("InvalidInput")
        ELSE [bars |-> sort([i \in 1..Len(csv.rows) |->
                 [timestamp_epoch_s |-> cells(i)[1].value, open |-> cells(i)[2].value,
                  high |-> cells(i)[3].value, low |-> cells(i)[4].value,
                  close |-> cells(i)[5].value,
                  volume |-> IF absent(i) THEN Nil ELSE Some(float(v_raw(i)).value)]])]

\* The bars the broker's series is made of: whole and fractional seconds,
\* one before the epoch, with and without a volume
ExportBars ==
    << Bar(-5, 11, 11, 11, 11) @@ [volume |-> Nil],
       Bar(10, 12, 12, 12, 12) @@ [volume |-> Some(7)],
       Bar(15, 13, 13, 13, 13) @@ [volume |-> Nil],
       Bar(20, 14, 14, 14, 14) @@ [volume |-> Some(0)],
       Bar(30, 15, 15, 15, 15) @@ [volume |-> Some(9)],
       Bar(40, 16, 16, 16, 16) @@ [volume |-> Nil] >>

\* A call of export_historical_bars: either broker, any sub-series, pages
\* of 1 to 3 bars
ExportInit ==
    /\ Components
    /\ fn_args \in { [broker |-> broker,
                       source |-> SelectSeq(ExportBars, LAMBDA b : b.timestamp_epoch_s \in T),
                       p |-> p, max_calls |-> max_calls] :
                        broker \in HistoryBrokers, T \in SUBSET {-5, 10, 15, 20, 30, 40},
                        p \in 1..3, max_calls \in 0..MaxCalls }
    /\ fn_ret = Pending

ExportHistoricalBars ==
    /\ fn_ret = Pending
    /\ fn_ret' = export_historical_bars(fn_args.broker, fn_args.source, fn_args.p,
                                        fn_args.max_calls) @@
                  [loaded |-> Pending]
    /\ UNCHANGED <<fn_args, exceptFn>>

\* load_bars_csv on the file the export wrote
LoadBarsCsv ==
    /\ fn_ret # Pending
    /\ fn_ret.loaded = Pending
    /\ fn_ret' = [fn_ret EXCEPT !.loaded = load_bars_csv(fn_ret.csv)]
    /\ UNCHANGED <<fn_args, exceptFn>>

-----------------------------------------------------------------------------
(* backtest/validate.py: validate_bars.  A field of a bar is Some(number) or
   Nil (None); the message of an issue is its text, the index of the bar and
   the field it names. *)

ValidationIssue(level, message, i, name) ==
    [level |-> level, message |-> message, bar |-> i, name |-> name]

\* The second loop with a warning wherever the timestamp occurs at another bar
duplicate_timestamps_all(bars) ==
    LET seen == SelectSeq([i \in 1..Len(bars) |-> i],
                          LAMBDA i : \E j \in 1..Len(bars) :
                              j # i /\ bars[j].timestamp_epoch_s = bars[i].timestamp_epoch_s)
    IN  [k \in 1..Len(seen) |->
            ValidationIssue("warn", "duplicate timestamp at", seen[k] - 1, "timestamp")]

\* The second loop (lines 43-47): a warning at every bar whose timestamp is
\* already in seen
duplicate_timestamps(bars) ==
    LET seen == SelectSeq([i \in 1..Len(bars) |-> i],
                          LAMBDA i : \E j \in 1..(i - 1) :
                              bars[j].timestamp_epoch_s = bars[i].timestamp_epoch_s)
    IN  [k \in 1..Len(seen) |->
            ValidationIssue("warn", "duplicate timestamp at", seen[k] - 1, "timestamp")]

\* The first loop (lines 21-40) from bar[i] on, last_ts being the last
\* timestamp seen: the issues appended, or the TypeError of a comparison
\* with None
RECURSIVE enumerate(_, _, _)
enumerate(bars, i, last_ts) ==
    IF i >= Len(bars) THEN [issues |-> <<>>]
    ELSE LET b == bars[i + 1]
             of(name, v) == IF v = Nil THEN << ValidationIssue("error", "missing", i, name) >>
                            ELSE IF Val(v) <= 0
                            THEN << ValidationIssue("error", "non-positive", i, name) >>
                            ELSE <<>>
             rest == enumerate(bars, i + 1, IF b.timestamp_epoch_s = Nil THEN last_ts
                                            ELSE b.timestamp_epoch_s)
         IN  IF IsRaised(rest) THEN rest
             ELSE IF b.timestamp_epoch_s = Nil
             THEN [issues |-> << ValidationIssue("error", "missing", i, "timestamp") >>
                                \o rest.issues]
             ELSE IF Nil \in {b.open, b.high, b.low, b.close} THEN Raise("TypeError")
             ELSE [issues |->
                  (IF last_ts # Nil /\ Val(b.timestamp_epoch_s) < Val(last_ts)
                   THEN << ValidationIssue("error", "timestamps not sorted at", i, "timestamp") >>
                   ELSE <<>>)
                  \o of("open", b.open) \o of("high", b.high) \o of("low", b.low)
                  \o of("close", b.close)
                  \o (IF Val(b.low) > Val(b.high)
                      THEN << ValidationIssue("error", "low > high", i, "low") >> ELSE <<>>)
                  \o (IF ~(Val(b.low) <= Val(b.open) /\ Val(b.open) <= Val(b.high))
                      THEN << ValidationIssue("warn", "outside [low,high]", i, "open") >>
                      ELSE <<>>)
                  \o (IF ~(Val(b.low) <= Val(b.close) /\ Val(b.close) <= Val(b.high))
                      THEN << ValidationIssue("warn", "outside [low,high]", i, "close") >>
                      ELSE <<>>)
                  \o rest.issues]

\* validate_bars: the issues, or the exception it raises
validate_bars(bars) ==
    IF bars = <<>> THEN [issues |-> << ValidationIssue("error", "no bars", -1, "") >>]
    ELSE IF IsRaised(enumerate(bars, 0, Nil)) THEN enumerate(bars, 0, Nil)
    ELSE [issues |-> enumerate(bars, 0, Nil).issues \o duplicate_timestamps(bars)]

\* A call of validate_bars: up to three bars, each sound, with open or close
\* outside the range, low > high, an open of 0, or a missing field
ValidateInit ==
    LET B(ts, o, h, l, c) == [timestamp_epoch_s |-> ts, open |-> o, high |-> h, low |-> l,
                              close |-> c]
        Bars == { B(Some(1), Some(5), Some(6), Some(4), Some(5)),
                  B(Some(2), Some(5), Some(6), Some(4), Some(5)),
                  B(Some(1), Some(7), Some(6), Some(4), Some(5)),
                  B(Some(2), Some(5), Some(6), Some(4), Some(3)),
                  B(Some(2), Some(5), Some(4), Some(6), Some(5)),
                  B(Some(3), Some(0), Some(6), Some(4), Some(5)),
                  B(Nil, Some(5), Some(6), Some(4), Some(5)),
                  B(Some(2), Nil, Some(6), Some(4), Some(5)),
                  B(Some(1), Some(5), Some(6), Nil, Some(5)) }
    IN  /\ Components
        /\ fn_args \in UNION { [1..n -> Bars] : n \in 0..3 }
        /\ fn_ret = Pending

ValidateBars ==
    /\ fn_ret = Pending
    /\ fn_ret' = validate_bars(fn_args)
    /\ UNCHANGED <<fn_args, exceptFn>>

-----------------------------------------------------------------------------
(* llm/chat_protocol.py: parse_chat_model_reply.  A text is [fence, body]:
   fence says that the body stands between a ``` line and a ``` line, and
   the body is [json |-> v], the text of the JSON value v, or [garbage |-> s],
   a text that is no JSON.  A JSON value is a record tagged t: "null", "str",
   "num", "list" (items) or "obj" (one field a key the model draws, a key the
   object lacks being [t |-> "absent"]). *)

\* _strip_code_fences: the lines between the fences
_strip_code_fences(text) ==
    IF text.fence THEN [text EXCEPT !.fence = FALSE] ELSE text

\* parse_chat_model_reply
parse_chat_model_reply(text) ==
    LET raw == _strip_code_fences(text)
        obj == raw.body.json
        str(v) == CASE v.t = "str" -> v.s
                    [] v.t = "null" -> "None"
                    [] v.t = "num" -> "7"       \* the one number drawn is 7
                    [] OTHER -> "[...]"
        fallback == [assistant_message |-> [text |-> text], tool_calls |-> <<>>]
        tool_calls_raw == IF obj.tool_calls.t = "list" THEN obj.tool_calls.items ELSE <<>>
        name(item) == strip(IF item.name.t = "absent" THEN "" ELSE str(item.name))
        kept == SelectSeq(tool_calls_raw, LAMBDA item : item.t = "obj" /\ name(item) # "")
    IN  IF raw.fence \/ DOMAIN raw.body # {"json"} THEN fallback
        ELSE IF obj.t # "obj" THEN fallback
        ELSE [assistant_message |->
                 [str |-> IF obj.assistant_message.t \in {"absent", "null"} THEN ""
                          ELSE str(obj.assistant_message)],
              tool_calls |->
                 [k \in 1..Len(kept) |->
                     [name |-> name(kept[k]),
                      args |-> IF kept[k].args.t = "obj" THEN kept[k].args
                               ELSE [t |-> "obj", symbol |-> [t |-> "absent"]],
                      call_id |-> IF kept[k].id.t \in {"absent", "null"} THEN None
                                  ELSE str(kept[k].id)]]]

\* A call of parse_chat_model_reply: garbage, JSON values that are no
\* objects, and objects with up to two tool calls whose name, args and id
\* are absent, null, of the expected type or of another one
ParseInit ==
    LET Absent == [t |-> "absent"]
        Null == [t |-> "null"]
        Str(s) == [t |-> "str", s |-> s]
        Seven == [t |-> "num", n |-> 7]
        Args == [t |-> "obj", symbol |-> Str("AAPL")]
        Item(name, args, id) == [t |-> "obj", name |-> name, args |-> args, id |-> id]
        Items == { Item(Str("place_order"), Args, Str("c1")),
                   Item(Str(" snapshot "), [t |-> "list", items |-> <<>>], Absent),
                   Item(Absent, Args, Str("c2")),
                   Item(Str(""), Args, Absent),
                   Item(Str("  "), Args, Absent),
                   Item(Null, Absent, Null),
                   Item(Seven, Null, Seven),
                   Str("place_order") }
        ToolCalls_ == { [t |-> "list", items |-> items] :
                            items \in UNION { [1..n -> Items] : n \in 0..2 } }
                        \cup {Absent, Null, Str("place_order")}
        Values == { [t |-> "obj", assistant_message |-> msg, tool_calls |-> calls] :
                        msg \in {Absent, Null, Str("hi"), Seven}, calls \in ToolCalls_ }
                    \cup {Null, Seven, [t |-> "list", items |-> <<>>]}
        Bodies == { [json |-> v] : v \in Values } \cup {[garbage |-> "hello"], [garbage |-> ""]}
    IN  /\ Components
        /\ fn_args \in { [fence |-> fence, body |-> body] : fence \in BOOLEAN, body \in Bodies }
        /\ fn_ret = Pending

ParseChatModelReply ==
    /\ fn_ret = Pending
    /\ fn_ret' = parse_chat_model_reply(fn_args)
    /\ UNCHANGED <<fn_args, exceptFn>>

-----------------------------------------------------------------------------
(* llm/chat.py: ChatSession.run_turn.  The client is a script: the outcome
   of each of its calls (generate or stream_generate) in turn, a failure or
   a text; a text is given as the ChatModelReply parse_chat_model_reply
   makes of it, and a blank text is the empty one.  A run of run_turn is
   its return value (or the error it raises), the history, the broker and
   the trace of what it did, in order. *)

ChatModelReply(assistant_message, tool_calls) ==
    [assistant_message |-> assistant_message, tool_calls |-> tool_calls]

\* chat_protocol.ToolCall, with its call_id
ChatToolCall(call, call_id) == [name |-> call.name, args |-> call.args, call_id |-> call_id]

Fails == [kind |-> "fails"]

Text(reply) == [kind |-> "text", blank |-> FALSE, reply |-> reply]

Blank == [kind |-> "text", blank |-> TRUE, reply |-> ChatModelReply("", <<>>)]

\* The script's next outcome; a script that has run out answers as the
\* tests' _FakeLLM.generate does, with an empty reply
Peek(script) == IF script = <<>> THEN Text(ChatModelReply("", <<>>)) ELSE Head(script)

\* A call of the client: the method and its use_google_search argument
ClientCall(method, use_google_search) ==
    [method |-> method, use_google_search |-> use_google_search]

\* client.generate / client.stream_generate: the next outcome of the script;
\* calls are the client calls made so far
generate(script, method, use_google_search, calls) ==
    [raw |-> IF Peek(script).kind = "fails" THEN Raise("LLMError") ELSE Peek(script),
     script |-> IF script = <<>> THEN <<>> ELSE Tail(script),
     calls |-> Append(calls, ClientCall(method, use_google_search))]

\* The handler that tries again whether or not grounding was on
retried_any(first, method, use_search) ==
    IF IsRaised(first.raw) THEN generate(first.script, method, FALSE, first.calls) ELSE first

\* `except Exception: if use_search: <the call again, use_google_search=False>
\* else: raise`
retried(first, method, use_search) ==
    IF IsRaised(first.raw) /\ use_search
    THEN generate(first.script, method, FALSE, first.calls)
    ELSE first

\* `if text.strip() == "": return self.client.generate(...,
\* use_google_search=use_search)`
fallback(got, use_search) ==
    IF ~IsRaised(got.raw) /\ got.raw.blank
    THEN generate(got.script, "generate", use_search, got.calls)
    ELSE got

_call_model(script, use_search, stream) ==
    IF ~stream
    THEN retried(generate(script, "generate", use_search, <<>>), "generate", use_search)
    ELSE fallback(retried(generate(script, "stream_generate", use_search, <<>>),
                          "stream_generate", use_search),
                  use_search)

\* A message of the history; its text is [s |-> a plain text], [raw |-> the
\* model's raw output] or the JSON text of a tool result
Message(role, text) == [role |-> role, text |-> text]

\* format_tool_result_for_model: the JSON text of the payload
format_tool_result_for_model(call, ok, result) ==
    [tool_result |-> [id |-> call.call_id, name |-> call.name, ok |-> ok, result |-> result]]

\* ChatSession._execute_tool that lets the error of the dispatch through
try_dispatch_raising(session, out) ==
    [ok |-> TRUE, result |-> out.result, broker |-> out.broker]

\* ChatSession._execute_tool, given what dispatch_tool did: (True, result),
\* or (False, {"error": str(exc)}) for any exception
try_dispatch(session, out) ==
    IF IsRaised(out.result)
    THEN [ok |-> FALSE, result |-> [error |-> out.result.raised], broker |-> out.broker]
    ELSE [ok |-> TRUE, result |-> out.result, broker |-> out.broker]

\* The body of `for call in reply.tool_calls` without the callback
executed_unobserved(st, call, session, done) ==
    IF IsRaised(done.result) THEN [st EXCEPT !.ret = done.result, !.broker = done.broker]
    ELSE [st EXCEPT
            !.broker = done.broker,
            !.messages = Append(@, Message("user", format_tool_result_for_model(call, done.ok, done.result))),
            !.trace = @ \o << [e |-> "tool", call |-> call, ok |-> done.ok],
                              [e |-> "message", role |-> "user", call |-> call, ok |-> done.ok] >>]

\* The body of `for call in reply.tool_calls`: _execute_tool, the callback
\* when there is one, the tool_result message.  A tool error that is not
\* caught ends the turn
executed(st, call, session, done) ==
    IF IsRaised(done.result) THEN [st EXCEPT !.ret = done.result, !.broker = done.broker]
    ELSE [st EXCEPT
            !.broker = done.broker,
            !.messages = Append(@, Message("user", format_tool_result_for_model(call, done.ok, done.result))),
            !.trace = @ \o << [e |-> "tool", call |-> call, ok |-> done.ok] >>
                        \o (IF session.on_tool_executed
                            THEN << [e |-> "callback", call |-> call, ok |-> done.ok] >>
                            ELSE <<>>)
                        \o << [e |-> "message", role |-> "user", call |-> call, ok |-> done.ok] >>]

RECURSIVE for_call(_, _, _)
for_call(st, calls, session) ==
    IF calls = <<>> \/ st.ret # Pending THEN st
    ELSE for_call(executed(st, Head(calls), session,
                           try_dispatch(session,
                                        dispatch_tool(Head(calls), st.broker, session.trading,
                                                      session.confirm_token, session.allowed_kinds,
                                                      session.allowed_symbols))),
                  Tail(calls), session)

\* `except Exception as exc` around _call_model, with the error let through
model_failed_raising(st, exc) == [st EXCEPT !.ret = exc]

\* `except Exception as exc` around _call_model: the error text becomes an
\* assistant message and the reply returned
model_failed(st, exc) ==
    [st EXCEPT !.messages = Append(@, Message("assistant", [s |-> "LLM request failed: error"])),
               !.ret = ChatModelReply("LLM request failed: error", <<>>)]

\* One round after the model has answered with raw: show_raw, parse, the
\* assistant message, then the return or the tool calls
answered(st, raw, session) ==
    [st EXCEPT
       !.last_reply = raw.reply,
       !.messages = @ \o (IF session.show_raw THEN <<Message("assistant", [raw |-> raw])>> ELSE <<>>)
                      \o (IF raw.reply.assistant_message # ""
                          THEN <<Message("assistant", [s |-> raw.reply.assistant_message])>> ELSE <<>>),
       !.ret = IF raw.reply.tool_calls = <<>> THEN raw.reply ELSE Pending]

\* The client has been called: the script moves on and the trace notes the
\* model call and whether it raised
called(st, got) ==
    [st EXCEPT !.script = got.script,
               !.trace = Append(@, [e |-> "model", raised |-> IsRaised(got.raw)])]

\* One round, given what _call_model returned
round(st, got, session) ==
    IF IsRaised(got.raw) THEN model_failed(called(st, got), got.raw)
    ELSE for_call(answered(called(st, got), got.raw, session),
                  got.raw.reply.tool_calls, session)

\* The loop without its bound: rounds until a reply ends the turn
RECURSIVE for_round_unlimited(_, _, _)
for_round_unlimited(st, session, rounds) ==
    IF st.ret # Pending THEN st
    ELSE for_round_unlimited(round(st,
                                   _call_model(st.script, session.use_search, session.stream),
                                   session),
                             session, rounds)

RECURSIVE for_round(_, _, _)
for_round(st, session, rounds) ==
    IF st.ret # Pending THEN st
    ELSE IF rounds = 0
    THEN [st EXCEPT !.ret = IF st.last_reply = NoArg THEN ChatModelReply("", <<>>)
                             ELSE st.last_reply]
    ELSE for_round(round(st,
                         _call_model(st.script, session.use_search, session.stream),
                         session),
                   session, rounds - 1)

\* `finally: oms.close()`
finally(st) == [st EXCEPT !.trace = Append(@, [e |-> "oms.close"])]

run_turn(session, script) ==
    IF ~session.llm_ready \/ session.allowed_symbols = {}
    THEN [ret |-> Raise("RuntimeError"), messages |-> session.messages, trace |-> <<>>,
          broker |-> session.broker, script |-> script, last_reply |-> NoArg]
    ELSE finally(for_round([ret |-> Pending, messages |-> session.messages,
                            trace |-> <<[e |-> "OrderManager"]>>, broker |-> session.broker,
                            script |-> script, last_reply |-> NoArg],
                           session, session.max_tool_rounds))

ChatSessionOf(broker, trading, llm_ready, allowed_symbols, flags, max_tool_rounds) ==
    [broker |-> broker, trading |-> trading, confirm_token |-> None, llm_ready |-> llm_ready,
     allowed_kinds |-> {"STK"}, allowed_symbols |-> allowed_symbols,
     use_search |-> "search" \in flags, stream |-> "stream" \in flags,
     show_raw |-> "show_raw" \in flags, on_tool_executed |-> "silent" \notin flags,
     max_tool_rounds |-> max_tool_rounds,
     messages |-> <<Message("user", [s |-> "Buy 1 AAPL market."])>>]

\* The longest script of the client
MaxScript == 3

\* The session of test_chat_executes_tool_calls and sessions that differ
\* from it in one respect: dry_run, a broker that is not connected, the
\* search and streaming toggles, show_raw, fewer rounds, no callback, an LLM
\* that is not configured, no allowed symbol
ChatSessions ==
    LET Connected == SimState(TRUE, <<>>, <<>>, 0, None)
        Live == TradingConfig("sim", FALSE, TRUE, FALSE, None, None)
    IN  { ChatSessionOf(Connected, Live, TRUE, {"AAPL"}, flags, 5) :
              flags \in {{}, {"search"}, {"stream"}, {"search", "stream"}, {"show_raw"}, {"silent"}} }
        \cup { ChatSessionOf(Connected, Live, TRUE, {"AAPL"}, {}, n) : n \in 0..2 }
        \cup { ChatSessionOf(Connected, TradingConfig("sim", FALSE, TRUE, TRUE, None, None),
                             TRUE, {"AAPL"}, {}, 5),
               ChatSessionOf(SimState(FALSE, <<>>, <<>>, 0, None), Live, TRUE, {"AAPL"}, {}, 5),
               ChatSessionOf(Connected, Live, FALSE, {"AAPL"}, {}, 5),
               ChatSessionOf(Connected, Live, TRUE, {}, {}, 5) }

PlaceTool(symbol) ==
    ToolCall("place_order", EmptyId, ToolOrder("STK", symbol, "BUY", [num |-> 1], "MKT", Nil),
             "STK", "")

\* What the model may say: the two replies of test_chat_executes_tool_calls,
\* a reply with a refused and an allowed order, and a reply whose calls fail
\* in the parse, for the tool's name, for a missing order_id and in the
\* broker, followed by one that succeeds
ChatReplies ==
    { ChatModelReply("Placing a small test order.", <<ChatToolCall(PlaceTool("AAPL"), "1")>>),
      ChatModelReply("Done.", <<>>),
      ChatModelReply("", <<ChatToolCall(PlaceTool("TSLA"), "1"),
                           ChatToolCall(PlaceTool("AAPL"), "2")>>),
      ChatModelReply("Trying.",
                     << ChatToolCall(ToolCall("place_order", EmptyId, NotObject, "STK", ""), "1"),
                        ChatToolCall(ToolCall("rm_rf", EmptyId, NotObject, "STK", ""), "2"),
                        ChatToolCall(ToolCall("modify_order", EmptyId,
                                              ToolOrder("STK", "AAPL", "BUY", [num |-> 1], "MKT", Nil),
                                              "STK", ""), "3"),
                        ChatToolCall(ToolCall("cancel_order", SimId(0), NotObject, "STK", ""), "4"),
                        ChatToolCall(ToolCall("get_positions", EmptyId, NotObject, "STK", ""), "5") >>) }

ChatScripts ==
    UNION { [1..n -> {Fails, Blank} \cup {Text(r) : r \in ChatReplies}] : n \in 0..MaxScript }

RunTurnInit ==
    /\ Components
    /\ fn_args \in [session : ChatSessions, script : ChatScripts]
    /\ fn_ret = Pending

RunTurn ==
    /\ fn_ret = Pending
    /\ fn_ret' = run_turn(fn_args.session, fn_args.script)
    /\ UNCHANGED <<fn_args, exceptFn>>

-----------------------------------------------------------------------------
(* llm/chat.py: one call of ChatSession._call_model, for each script of the
   client and each setting of gemini_use_google_search and stream *)

CallModelInit ==
    /\ Components
    /\ fn_args \in [script : ChatScripts, use_search : BOOLEAN, stream : BOOLEAN]
    /\ fn_ret = Pending

CallModel ==
    /\ fn_ret = Pending
    /\ fn_ret' = _call_model(fn_args.script, fn_args.use_search, fn_args.stream)
    /\ UNCHANGED <<fn_args, exceptFn>>

-----------------------------------------------------------------------------
(* backtest/broker.py: one call of BacktestBroker._apply_fill *)

\* The largest position, long or short, a fill meets, and the largest
\* quantity of a fill
MaxPosition == 2

MaxFillQty == 3

\* The book a fill meets: flat without an average cost, or long or short
\* with the average cost the earlier fills left
Books ==
    { [cash |-> initial_cash, qty |-> 0, avg_cost |-> Nil] }
    \cup { [cash |-> initial_cash, qty |-> qty, avg_cost |-> avg_cost] :
              qty \in (-MaxPosition..MaxPosition) \ {0},
              avg_cost \in {Rat(200, 1), Rat(501, 2)} }

ApplyFillInit ==
    /\ Components
    /\ fn_args \in [b : Books, side : {"BUY", "sell"}, qty : 1..MaxFillQty,
                    price : {200, 300}, commission : {0, 1}]
    /\ fn_ret = Pending

ApplyFill ==
    /\ fn_ret = Pending
    /\ fn_ret' = _apply_fill(fn_args.b, fn_args.side, fn_args.qty, fn_args.price,
                             fn_args.commission)
    /\ UNCHANGED <<fn_args, exceptFn>>

-----------------------------------------------------------------------------
(* Specifications: one per component; the other components stay as constructed *)

Init == Components /\ fn_args = NoArg /\ fn_ret = Pending

SpecSim == Init /\ [][SimNext]_vars

SpecBt == Init /\ [][BtNext]_vars

SpecIbkr == Init /\ [][IbNext]_vars

SpecCli == Init /\ [][CliNext]_vars

SpecTools == Init /\ [][ToolsNext]_vars

\* A function called once: the arguments are drawn, the call is the one step
SpecRunner == RunBacktestInit /\ [][RunBacktest]_vars

SpecValidate == ValidateInit /\ [][ValidateBars]_vars

SpecParse == ParseInit /\ [][ParseChatModelReply]_vars

SpecChat == RunTurnInit /\ [][RunTurn]_vars

SpecApplyFill == ApplyFillInit /\ [][ApplyFill]_vars

SpecCallModel == CallModelInit /\ [][CallModel]_vars

SpecExport == ExportInit /\ [][ExportHistoricalBars \/ LoadBarsCsv]_vars

-----------------------------------------------------------------------------
(* SimBroker: properties *)

\* C6: SimBroker.place_order on a connected broker with a valid request
\* appends exactly one normalized request, draws a fresh id prefixed "sim-",
\* and records and returns status Filled with filled = quantity,
\* remaining = 0 and no average fill price; an invalid request raises and
\* leaves the order list and the status map unchanged.
C6_PlaceOrderFills ==
    [][(sim_ret'.op = "place_order" /\ sim_connected) =>
        LET req == validate_order_request(sim_ret'.req)
            res == sim_ret'.result
        IN  IF IsRaised(req)
            THEN /\ res = Raise("InvalidInput")
                 /\ sim_orders' = sim_orders
                 /\ sim_statuses' = sim_statuses
            ELSE /\ ~IsRaised(res)
                 /\ sim_orders' = Append(sim_orders, req)
                 /\ res.order_id.prefix = "sim-"
                 /\ res.order_id \notin DOMAIN sim_statuses
                 /\ res.status = "Filled"
                 /\ DOMAIN sim_statuses' = DOMAIN sim_statuses \cup {res.order_id}
                 /\ \A o \in DOMAIN sim_statuses : sim_statuses'[o] = sim_statuses[o]
                 /\ sim_statuses'[res.order_id] =
                        OrderStatus(res.order_id, "Filled", Some(req.quantity), Some(0), Nil)
    ]_vars

\* C6 witness: a request given as " buy" was placed and is recorded as BUY, filled
C6_Witness ==
    /\ sim_ret.op = "place_order"
    /\ ~IsRaised(sim_ret.result)
    /\ sim_ret.req.side = " buy"
    /\ Last(sim_orders).side = "BUY"
    /\ sim_statuses[sim_ret.result.order_id].filled = Some(2)

\* C7: SimBroker.cancel_order fails with NotFound for an unknown id and
\* changes nothing; is a no-op on a Filled or Cancelled order; otherwise sets
\* the status to Cancelled keeping filled, remaining and avg_fill_price.
\* Hence no cancel_order or modify_order call changes the status record of a
\* Filled or Cancelled order.
C7_CancelOrder ==
    [][/\ (sim_ret'.op = "cancel_order" /\ sim_connected) =>
            LET id == sim_ret'.order_id
            IN  /\ sim_orders' = sim_orders
                /\ IF id \notin DOMAIN sim_statuses
                   THEN sim_ret'.result = Raise("NotFound") /\ sim_statuses' = sim_statuses
                   ELSE /\ ~IsRaised(sim_ret'.result)
                        /\ IF sim_statuses[id].status \in Terminal
                           THEN sim_statuses' = sim_statuses
                           ELSE sim_statuses' =
                                  [sim_statuses EXCEPT ![id] = [@ EXCEPT !.status = "Cancelled"]]
       /\ sim_ret'.op \in {"cancel_order", "modify_order"} =>
            \A o \in DOMAIN sim_statuses :
                sim_statuses[o].status \in Terminal =>
                    o \in DOMAIN sim_statuses' /\ sim_statuses'[o] = sim_statuses[o]
    ]_vars

\* C7 witness: a partly filled working order was cancelled and kept its fill fields
C7_Witness ==
    /\ sim_ret.op = "cancel_order"
    /\ ~IsRaised(sim_ret.result)
    /\ sim_ret.order_id \in DOMAIN sim_statuses
    /\ sim_statuses[sim_ret.order_id] =
            OrderStatus(sim_ret.order_id, "Cancelled", Some(1), Some(1), Some(50))

\* C8: SimBroker.modify_order on a Filled or Cancelled order is a no-op: it
\* returns the unchanged terminal status and changes neither the status map
\* nor the order list; only for an order in a non-terminal status does it set
\* the status to Submitted and append the new request; for an unknown id it
\* fails with NotFound and changes nothing.
C8_ModifyTerminalNoOp ==
    [][(sim_ret'.op = "modify_order" /\ sim_connected) =>
        LET id == sim_ret'.order_id
            res == sim_ret'.result
        IN  IF id \notin DOMAIN sim_statuses
            THEN /\ res = Raise("NotFound")
                 /\ sim_statuses' = sim_statuses
                 /\ sim_orders' = sim_orders
            ELSE IF sim_statuses[id].status \in Terminal
            THEN /\ sim_statuses' = sim_statuses
                 /\ sim_orders' = sim_orders
                 /\ ~IsRaised(res) => res.status = sim_statuses[id].status
            ELSE ~IsRaised(res) =>
                 /\ sim_statuses'[id].status = "Submitted"
                 /\ sim_orders' = Append(sim_orders, validate_order_request(sim_ret'.req))
    ]_vars

-----------------------------------------------------------------------------
(* BacktestBroker: properties *)

\* The Broker operations other than connect and disconnect
BrokerOps ==
    {"place_order", "modify_order", "cancel_order", "get_order_status",
     "list_open_order_statuses", "place_bracket_order", "get_market_data_snapshot",
     "get_positions", "get_account_snapshot", "get_historical_bars"}

\* C9: for SimBroker and BacktestBroker, every Broker operation other than
\* connect/disconnect fails with NotConnected and changes no state when the
\* broker is not connected.
C9_NotConnected ==
    [][/\ (sim_ret'.op \in BrokerOps /\ ~sim_connected) =>
            /\ sim_ret'.result = Raise("NotConnected")
            /\ UNCHANGED <<sim_connected, sim_orders, sim_statuses, sim_uuid>>
       /\ (bt_ret'.op \in BrokerOps /\ ~bt_connected) =>
            /\ bt_ret'.result = Raise("NotConnected")
            /\ UNCHANGED <<bt_instrument, bt_fill_model, bt_connected, bt_i, bt_cash, bt_qty,
                           bt_avg_cost, bt_orders, bt_statuses, bt_open>>
    ]_vars

C11_LimitFillsAtLimit ==
    [][(bt_ret'.op = "step" /\ bt_connected /\ bt_i < Len(BtBars)
          /\ bt_fill_model.slippage_bps = 0) =>
         \A oid \in bt_open :
             bt_orders[oid].order_type = "LMT" =>
                 LET req == bt_orders[oid]
                     bar == BtBars[bt_i + 1]
                     reached == \/ req.side = "BUY" /\ bar.low <= Val(req.limit_price)
                                \/ req.side = "SELL" /\ bar.high >= Val(req.limit_price)
                 IN  IF reached
                     THEN /\ oid \notin bt_open'
                          /\ bt_statuses'[oid] = OrderStatus(oid, "Filled", Some(req.quantity),
                                                             Some(0), req.limit_price)
                     ELSE /\ oid \in bt_open'
                          /\ bt_statuses'[oid] = bt_statuses[oid]
                          /\ bt_statuses[oid].status = "Submitted"
    ]_vars

\* C11 witness: a limit order modified to BUY 2 @ 200 was filled by a step at
\* 200 (the position is the 2 bought, paid 400)
C11_Witness ==
    /\ bt_ret.op = "step"
    /\ bt_fill_model = FillModel(0, 0)
    /\ bt_qty = 2
    /\ bt_cash = initial_cash - 400
    /\ \E oid \in DOMAIN bt_orders :
         /\ bt_orders[oid].order_type = "LMT"
         /\ bt_orders[oid].limit_price = Some(200)
         /\ bt_statuses[oid] = OrderStatus(oid, "Filled", Some(2), Some(0), Some(200))

\* C12: one-bar execution lag: the bar a step() evaluates the open orders
\* against is later than the bar current_bar() and the snapshot exposed when
\* those orders were placed (the cursor moves only in step(), so that is the
\* bar exposed just before the step); no order is evaluated against the bar
\* whose close the snapshot already showed.
C12_OneBarLag ==
    [][(bt_ret'.op = "step" /\ bt_connected /\ bt_i < Len(BtBars) /\ bt_open # {}) =>
          /\ Bt_get_market_data_snapshot(bt, bt_instrument).result.close = current_bar(bt).close
          /\ BtBars[bt_i + 1].timestamp_epoch_s > current_bar(bt).timestamp_epoch_s
    ]_vars

\* C13: an order's status only moves Submitted -> Filled or Submitted ->
\* Cancelled: once the status record of an order is Filled or Cancelled, no
\* operation on the broker changes it (cancel_order on a Filled order leaves
\* it Filled).
C13_TerminalStatusKept ==
    [][\A oid \in DOMAIN bt_statuses \cap DOMAIN bt_statuses' :
          /\ bt_statuses[oid].status \in {"Filled", "Cancelled"} =>
                bt_statuses'[oid] = bt_statuses[oid]
          /\ bt_statuses'[oid].status # bt_statuses[oid].status =>
                /\ bt_statuses[oid].status = "Submitted"
                /\ bt_statuses'[oid].status \in {"Filled", "Cancelled"}
    ]_vars

-----------------------------------------------------------------------------
(* IBKRBroker: properties *)

\* C2: IBKRBroker.connect() with require_paper = true returns normally only
\* if the managed-accounts list was observed non-empty with every account
\* starting with "DU"; if an account does not start with "DU", or the list is
\* still empty after the 10 polls, connect() raises - with or without an
\* injected factory.  An empty list makes it raise only after all 10 polls.
C2_PaperOnly ==
    (ib_ret.op = "connect" /\ ib_pc = "idle" /\ ib_require_paper) =>
        /\ ~IsRaised(ib_ret.result) <=>
              /\ ib_accounts # <<>>
              /\ \A k \in 1..Len(ib_accounts) : StartsWithDU(ib_accounts[k])
        /\ ib_polls <= PaperCheckPolls
        /\ (ib_session /\ ib_accounts = <<>>) => ib_polls = PaperCheckPolls

\* C2 witness: connect() returned normally with require_paper set after the
\* third poll was the first to see accounts, both starting with "DU"
C2_Witness ==
    /\ ib_ret.op = "connect"
    /\ ib_pc = "idle"
    /\ ib_require_paper
    /\ ~IsRaised(ib_ret.result)
    /\ ib_polls = 3
    /\ ib_accounts = << <<"D", "U", "1">>, <<"D", "U", "2">> >>

\* The placeOrder requests among the requests calls sent to the gateway
Placed(calls) == {k \in 1..Len(calls) : calls[k].call = "placeOrder"}

\* The qualifyContracts requests among them that the gateway answered with
\* the list answer
Asked(calls, answer) ==
    {k \in 1..Len(calls) : calls[k].call = "qualifyContracts" /\ calls[k].qualified = answer}

\* C25: every placeOrder request that place_order or place_bracket_order
\* sends comes, within the same call, after a qualifyContracts request whose
\* answer is the contract the order is placed on; and after a
\* qualifyContracts request answered with the empty list the call raises and
\* sends no placeOrder request.
C25_QualifiedBeforePlaced ==
    ib_ret.op \in {"place_order", "place_bracket_order"} =>
        /\ \A k \in Placed(ib_calls) :
              \E j \in Asked(ib_calls, <<ib_calls[k].contract>>) : j < k
        /\ (\E j \in 1..Len(ib_calls) : j \in Asked(ib_calls, <<>>)) =>
              /\ IsRaised(ib_ret.result)
              /\ Placed(ib_calls) = {}

\* C25 witness: place_bracket_order returned after one qualifyContracts
\* request and the three placeOrder requests that follow it
C25_Witness ==
    /\ ib_ret.op = "place_bracket_order"
    /\ ~IsRaised(ib_ret.result)
    /\ Len(ib_calls) = 4
    /\ Placed(ib_calls) = {2, 3, 4}

\* modify_order was called on a connected adapter with a valid request
Modifying(ret) ==
    /\ ret.op = "modify_order"
    /\ ib_handle
    /\ ib_session
    /\ ~IsRaised(validate_order_request(ret.args.req))

\* The contracts recorded for order_id before the call: the one in the
\* contract cache, else that of the trade in the trade cache, else that of
\* the gateway's trade with this orderId
Recorded(order_id) ==
    IF order_id \in DOMAIN ib_contracts THEN {ib_contracts[order_id]}
    ELSE IF order_id \in DOMAIN ib_trades THEN {ib_trades[order_id].contract}
    ELSE {ib_gateway[n].contract : n \in {i \in DOMAIN ib_gateway : order_id_str(i) = order_id}}

\* order_id spells a number
Numeric(order_id) == \E n \in DOMAIN OrderIdDigits : OrderIdDigits[n] = order_id

\* modify_order sent exactly one placeOrder request, with the orderId that
\* order_id spells and a contract recorded for it, and returned order_id
Resubmitted(order_id, recorded, calls, result) ==
    /\ Len(calls) = 1
    /\ calls[1].call = "placeOrder"
    /\ order_id_str(calls[1].order.orderId) = order_id
    /\ calls[1].contract \in recorded
    /\ ~IsRaised(result)
    /\ result.order_id = order_id

\* C26 as stated: on a connected adapter and with a valid request,
\* modify_order of a known order sends exactly one placeOrder request with
\* the original numeric orderId and the recorded contract and returns the
\* same id; an order id that is not numeric raises InvalidInput and one found
\* neither in the cache nor among the gateway's trades raises NotFound, both
\* without a placeOrder request.
C26_ModifyAsStated ==
    [][Modifying(ib_ret') =>
          LET order_id == ib_ret'.args.order_id
          IN  /\ ~Numeric(order_id) =>
                    ib_ret'.result = Raise("InvalidInput") /\ ib_calls' = <<>>
              /\ Recorded(order_id) = {} =>
                    ib_ret'.result = Raise("NotFound") /\ ib_calls' = <<>>
              /\ (Numeric(order_id) /\ Recorded(order_id) # {}) =>
                    Resubmitted(order_id, Recorded(order_id), ib_calls', ib_ret'.result)
    ]_vars

\* C26: on a connected adapter and with a valid request, modify_order of an
\* order id found neither in the cache nor among the gateway's trades raises
\* NotFound, numeric or not; of a known order id that is not numeric it
\* raises InvalidInput; neither sends a placeOrder request.  Of a known
\* numeric order id it sends exactly one placeOrder request with that orderId
\* and the recorded contract, and returns the same id.
C26_ModifyByResubmission ==
    [][Modifying(ib_ret') =>
          LET order_id == ib_ret'.args.order_id
          IN  IF Recorded(order_id) = {}
              THEN ib_ret'.result = Raise("NotFound") /\ ib_calls' = <<>>
              ELSE IF ~Numeric(order_id)
              THEN ib_ret'.result = Raise("InvalidInput") /\ ib_calls' = <<>>
              ELSE Resubmitted(order_id, Recorded(order_id), ib_calls', ib_ret'.result)
    ]_vars

\* C26 witness: modify_order of order "1", which place_order had placed on
\* AAPL, was called with a request on TSLA and resubmitted orderId 1 on the
\* AAPL contract
C26_Witness ==
    /\ ib_ret.op = "modify_order"
    /\ ib_ret.args.order_id = "1"
    /\ ib_ret.args.req.instrument = TSLA
    /\ ~IsRaised(ib_ret.result)
    /\ Len(ib_calls) = 1
    /\ ib_calls[1].order.orderId = 1
    /\ ib_calls[1].contract = Qualified(_to_contract(AAPL))
    /\ "1" \in DOMAIN ib_contracts

\* C27: once connect() has raised, the adapter has no gateway handle and its
\* session is disconnected, and the place_order, modify_order, cancel_order
\* or place_bracket_order that follows raises NotConnected and sends the
\* gateway nothing.
C27_FailedConnectDisconnects ==
    [][(ib_ret.op = "connect" /\ ib_pc = "idle" /\ IsRaised(ib_ret.result)) =>
          /\ ~ib_handle
          /\ ~ib_session
          /\ ib_ret'.op \in {"place_order", "modify_order", "cancel_order",
                             "place_bracket_order"} =>
                /\ ib_ret'.result = Raise("NotConnected")
                /\ ib_calls' = <<>>
    ]_vars

-----------------------------------------------------------------------------
(* The command line: properties *)

CliCalled(call) == \E k \in 1..Len(cli_calls) : cli_calls[k] = call

\* The command made an order-placing call on its broker
CliOrderPlacing ==
    \/ CliCalled("broker.place_order")
    \/ CliCalled("broker.modify_order")
    \/ CliCalled("broker.place_bracket_order")

\* place-order, modify-order and place-bracket with --broker ibkr, and
\* paper-smoke with --order-test
CliGatedCommand ==
    \/ cli_cmd \in {"place-order", "modify-order", "place-bracket"} /\ cli_args.broker = "ibkr"
    \/ cli_cmd = "paper-smoke" /\ cli_args.order_test

\* C3: for place-order, modify-order and place-bracket with --broker ibkr and
\* for paper-smoke with --order-test, the broker's place_order, modify_order
\* or place_bracket_order is called only if dry_run is not in effect,
\* live_enabled is true, order_token is set and --confirm-token equals
\* order_token; in every other case none of the three is called.
C3_OrderGates ==
    CliGatedCommand /\ CliOrderPlacing =>
        /\ ~cli_cfg.dry_run
        /\ cli_env.live_enabled
        /\ cli_env.order_token \notin {None, ""}
        /\ cli_args.confirm_token = cli_env.order_token

\* C3 witness: paper-smoke --order-test placed its test order on the IBKR
\* broker, the environment's dry_run having been overridden by --no-dry-run
C3_Witness ==
    /\ cli_cmd = "paper-smoke"
    /\ cli_args.order_test
    /\ cli_env.dry_run
    /\ cli_broker.kind = "ibkr"
    /\ CliCalled("broker.place_order")

\* C5: every IBKRBroker a CLI command constructs (through
\* _apply_cli_overrides and _make_broker, by the run command or by the chat
\* entry point) has require_paper = true, whatever the environment and the
\* flags are.
C5_RequirePaperForced ==
    cli_broker.kind = "ibkr" => cli_broker.require_paper /\ cli_cfg.require_paper

\* C5 witness: a command connected an IBKRBroker while the environment's
\* configuration had require_paper = false
C5_Witness ==
    /\ cli_broker.kind = "ibkr"
    /\ ~cli_env.require_paper
    /\ CliCalled("broker.connect")

-----------------------------------------------------------------------------
(* run_backtest: properties *)

\* The exception an intent meets: the risk rejection, or the ValueError of
\* place_order for a quantity that is not positive or another instrument
RunFailure(intent, args) ==
    IF intent \in args.world.rejected THEN "RiskError"
    ELSE IF intent.quantity <= 0 \/ intent.instrument # args.instrument THEN "InvalidInput"
    ELSE "none"

\* The decisions the intents of the ticks from n on are to leave, in order
RECURSIVE RunDecisions(_, _)
RunDecisions(args, n) ==
    IF n > Len(args.strategy) THEN <<>>
    ELSE LET of(intent) ==
                 IF RunFailure(intent, args) = "none" THEN << Decision(intent, TRUE, "backtest") >>
                 ELSE IF RunFailure(intent, args) = "RiskError"
                 THEN << Decision(intent, FALSE, "RiskError") >>
                 ELSE << Decision(intent, TRUE, "backtest"),
                         Decision(intent, FALSE, RunFailure(intent, args)) >>
             tick == args.strategy[n]
         IN  (IF Len(tick) = 0 THEN <<>>
              ELSE IF Len(tick) = 1 THEN of(tick[1])
              ELSE of(tick[1]) \o of(tick[2])) \o RunDecisions(args, n + 1)

\* C14: run_backtest isolates the failure of an intent: the exception of
\* risk validation or of the submission is logged as a rejected decision with
\* the exception as its reason, the intents after it and the later bars are
\* processed (every intent of every tick leaves its decision, every intent
\* that does not fail leaves its order, every bar is stepped through), and
\* the run returns a BacktestResult.
C14_IntentFailureIsolated ==
    fn_ret # Pending =>
        /\ DOMAIN fn_ret.result = {"start_equity", "end_equity", "return_pct"}
        /\ fn_ret.ticks = Len(fn_args.bars)
        /\ fn_ret.broker.i = Len(fn_args.bars)
        /\ fn_ret.decisions = RunDecisions(fn_args, 1)
        /\ Cardinality(DOMAIN fn_ret.broker.orders) =
               Cardinality({ k \in 1..Len(fn_ret.decisions) :
                               /\ fn_ret.decisions[k].accepted
                               /\ RunFailure(fn_ret.decisions[k].intent, fn_args) = "none" })

\* C14 witness: the first tick emitted a quantity of 0 and then a buy of 1; the
\* first was logged as rejected, the second was placed and filled, and the
\* three bars were stepped through
C14_Witness ==
    /\ fn_ret # Pending
    /\ fn_args.strategy[1] = << Intents.zero, Intents.buy >>
    /\ Len(fn_args.bars) = 3
    /\ fn_ret.ticks = 3
    /\ fn_ret.decisions[2] = Decision(Intents.zero, FALSE, "InvalidInput")
    /\ fn_ret.decisions[3] = Decision(Intents.buy, TRUE, "backtest")
    /\ fn_ret.broker.qty >= 1

\* C15: with slippage 0, at least one bar and a strategy that emits one BUY
\* MKT intent of quantity q at the first tick and nothing later, the run
\* reports start_equity = initial_cash, has exactly one order, filled at
\* bars[0].open, and reports end_equity = initial_cash - q * bars[0].open -
\* commission_per_order + q * bars[N-1].close.
C15_BuyOnceEquity ==
    (/\ fn_ret # Pending
     /\ fn_args.cfg.slippage_bps = 0
     /\ Len(fn_args.strategy[1]) = 1
     /\ \A n \in 2..Len(fn_args.strategy) : fn_args.strategy[n] = <<>>
     /\ fn_args.strategy[1][1].side = "BUY"
     /\ fn_args.strategy[1][1].order_type = "MKT"
     /\ RunFailure(fn_args.strategy[1][1], fn_args) = "none") =>
        LET q == fn_args.strategy[1][1].quantity
            bars == fn_args.bars
        IN  /\ fn_ret.result.start_equity = fn_args.cfg.initial_cash
            /\ DOMAIN fn_ret.broker.orders = {BtId(1)}
            /\ fn_ret.broker.statuses[BtId(1)] =
                   OrderStatus(BtId(1), "Filled", Some(q), Some(0), Some(bars[1].open))
            /\ fn_ret.result.end_equity =
                   fn_args.cfg.initial_cash - q * bars[1].open
                     - fn_args.cfg.commission_per_order + q * bars[Len(bars)].close

\* C15 witness: a run over three bars that bought 3 at the first tick with a
\* commission of 2: 100000 - 3 * 200 - 2 + 3 * 300
C15_Witness ==
    /\ fn_ret # Pending
    /\ fn_args.strategy = << <<Intents.buy3>>, <<>>, <<>> >>
    /\ fn_args.cfg = BacktestConfig(2, 0)
    /\ fn_ret.result.start_equity = 100000
    /\ fn_ret.result.end_equity = 100298

-----------------------------------------------------------------------------
(* export_historical_bars and load_bars_csv: properties *)

\* C16: against the broker that returns the latest p >= 1 bars with timestamp
\* <= end_datetime of a series with distinct whole-second timestamps, and
\* with max_calls >= ceil(n / p), export_historical_bars returns exactly the
\* source series, every bar once in ascending order; the first call has no
\* end_datetime and each later call asks for one second before the earliest
\* bar accumulated so far.
C16_PaginationComplete ==
    LET source == fn_args.source
        n == Len(source)
        p == fn_args.p
        got(k) == IF k * p < n THEN k * p ELSE n
    IN  (/\ fn_ret # Pending
         /\ fn_args.broker = "_FakeHistoryBroker"
         /\ \A i \in 1..n : source[i].timestamp_epoch_s % 10 = 0
         /\ fn_args.max_calls >= (n + p - 1) \div p) =>
            /\ fn_ret.bars = source
            /\ Len(fn_ret.asked) >= (n + p - 1) \div p
            /\ \A k \in 1..Len(fn_ret.asked) :
                   fn_ret.asked[k] =
                      IF k = 1 THEN NoArg
                      ELSE [num |-> source[n - got(k - 1) + 1].timestamp_epoch_s - 10]

\* C16 witness: the four whole-second bars were exported in two calls of
\* three bars a page, the second asking for second 1 (the earliest bar of
\* the first page is at second 2)
C16_Witness ==
    /\ fn_ret # Pending
    /\ fn_args.broker = "_FakeHistoryBroker"
    /\ Len(fn_args.source) = 4
    /\ \A i \in 1..4 : fn_args.source[i].timestamp_epoch_s = 10 * i
    /\ fn_args.p = 3
    /\ fn_args.max_calls = 2
    /\ fn_ret.bars = fn_args.source
    /\ fn_ret.asked = << NoArg, [num |-> 10] >>

\* C17: load_bars_csv on the file export_historical_bars wrote succeeds and
\* yields as many bars as were written, with the same close values in the
\* same order, and no volume where the written bar had none.
C17_ExportLoadRoundTrip ==
    (fn_ret # Pending /\ fn_ret.loaded # Pending) =>
        /\ ~IsRaised(fn_ret.loaded)
        /\ Len(fn_ret.loaded.bars) = Len(fn_ret.bars)
        /\ \A i \in 1..Len(fn_ret.bars) :
               /\ fn_ret.loaded.bars[i].close = fn_ret.bars[i].close
               /\ fn_ret.bars[i].volume = Nil => fn_ret.loaded.bars[i].volume = Nil

\* C17 witness: bars at 1.0 s and 1.5 s, the second without a volume, were
\* written with the same timestamp 1 and read back in the written order
C17_Witness ==
    /\ fn_ret # Pending
    /\ fn_ret.loaded # Pending
    /\ Len(fn_ret.bars) >= 2
    /\ \E i \in 1..(Len(fn_ret.bars) - 1) :
          /\ fn_ret.bars[i].timestamp_epoch_s = 10
          /\ fn_ret.bars[i + 1].timestamp_epoch_s = 15
          /\ fn_ret.loaded.bars[i].timestamp_epoch_s = 10
          /\ fn_ret.loaded.bars[i + 1].timestamp_epoch_s = 10
          /\ fn_ret.loaded.bars[i].close = 12
          /\ fn_ret.loaded.bars[i + 1].close = 13
          /\ fn_ret.loaded.bars[i + 1].volume = Nil

-----------------------------------------------------------------------------
(* validate_bars: properties *)

\* The issue is among those validate_bars returned
Reported(issue) ==
    \E k \in 1..Len(fn_ret.issues) : fn_ret.issues[k] = issue

C19_NeverRaises ==
    fn_ret # Pending =>
        /\ ~IsRaised(fn_ret)
        /\ \A i \in 1..Len(fn_args) :
              \A name \in {"timestamp_epoch_s", "open", "high", "low", "close"} :
                  fn_args[i][name] = Nil =>
                      Reported(ValidationIssue("error", "missing", i - 1,
                                   IF name = "timestamp_epoch_s" THEN "timestamp" ELSE name))

-----------------------------------------------------------------------------
(* parse_chat_model_reply: properties *)

\* C20: parse_chat_model_reply never raises; a text that is no JSON, or
\* whose top level is no object, yields the raw text as assistant_message
\* and no tool calls; a reply with a tool_calls list yields one ToolCall for
\* each entry that is an object with a non-empty name (a text; surrounding
\* blanks do not count), in the original order, with that name, its args
\* (the empty object when the args are no object) and its id, and yields
\* none for the entries without such a name.
C20_ParseReply ==
    LET text == fn_args
        named(item) == item.t = "obj" /\ item.name.t = "str" /\ strip(item.name.s) # ""
        entries == SelectSeq(text.body.json.tool_calls.items, named)
    IN  fn_ret # Pending =>
          /\ ~IsRaised(fn_ret)
          /\ (DOMAIN text.body # {"json"} \/ text.body.json.t # "obj") =>
                fn_ret = [assistant_message |-> [text |-> text], tool_calls |-> <<>>]
          /\ (/\ DOMAIN text.body = {"json"}
              /\ text.body.json.t = "obj"
              /\ text.body.json.tool_calls.t = "list") =>
                /\ Len(fn_ret.tool_calls) = Len(entries)
                /\ \A k \in 1..Len(entries) :
                      /\ fn_ret.tool_calls[k].name = strip(entries[k].name.s)
                      /\ entries[k].args.t = "obj" => fn_ret.tool_calls[k].args = entries[k].args
                      /\ entries[k].args.t # "obj" =>
                            fn_ret.tool_calls[k].args = [t |-> "obj", symbol |-> [t |-> "absent"]]
                      /\ entries[k].id.t = "str" => fn_ret.tool_calls[k].call_id = entries[k].id.s
                      /\ entries[k].id.t \in {"absent", "null"} =>
                            fn_ret.tool_calls[k].call_id = None

-----------------------------------------------------------------------------
(* dispatch_tool: properties *)

\* The number of times a dispatch called `what`
Calls(events, what) == Cardinality({i \in DOMAIN events : events[i] = what})

\* A place_order call whose order is an object that names an instrument
NamesInstrument(call) ==
    /\ call.name = "place_order"
    /\ call.args.order # NotObject
    /\ call.args.order.instrument # NotObject

\* The symbol (compared without regard to case) is not among the allowed
\* symbols, or the kind is not among the allowed kinds
Disallowed(inst_obj, allowed_kinds, allowed_symbols) ==
    \/ upper(strip(inst_obj.symbol)) \notin {upper(s) : s \in allowed_symbols}
    \/ upper(strip(inst_obj.kind)) \notin {upper(k) : k \in allowed_kinds}

\* The order's quantity is a number and its kind one the instruments know,
\* so that float() and validate_instrument accept them
WellFormed(order) ==
    /\ DOMAIN order.qty = {"num"}
    /\ upper(strip(order.instrument.kind)) \in {"STK", "FUT", "FX"}

\* The order parses and validate_order_request accepts it
ValidOrder(order) ==
    /\ ~IsRaised(_parse_order_request(order))
    /\ ~IsRaised(validate_order_request(_parse_order_request(order)))

\* The session's OrderManager passes an order on to the broker: dry_run is
\* off and the live gate lets it through
Sends(trading, confirm_token) ==
    /\ ~trading.dry_run
    /\ ~IsRaised(OrderManager_gate(trading, confirm_token))

FirstOrderDisallowed(b, allowed_kinds, allowed_symbols) ==
    /\ SimId(1) \in DOMAIN b.statuses
    /\ b.orders # <<>>
    /\ \/ upper(b.orders[1].instrument.kind) \notin {upper(k) : k \in allowed_kinds}
       \/ /\ allowed_symbols # {}
          /\ upper(b.orders[1].instrument.symbol) \notin {upper(s) : s \in allowed_symbols}

\* C28: no modify_order or cancel_order tool call changes or cancels an
\* existing order whose instrument is outside the allow-list: while order
\* sim-1 is such an order, its status and the broker's recorded requests are
\* the same after the call as before, whatever instrument the call names.
C28_AllowListCoversExisting ==
    [][ (/\ tl_call'.name \in {"modify_order", "cancel_order"}
         /\ FirstOrderDisallowed(tl_broker, tl_allowed_kinds, tl_allowed_symbols)) =>
            /\ tl_broker'.statuses[SimId(1)] = tl_broker.statuses[SimId(1)]
            /\ tl_broker'.orders = tl_broker.orders ]_vars

\* C4: every place_order or modify_order tool call that reaches
\* OrderManager.submit or OrderManager.modify is preceded, in the same
\* dispatch, by a RiskManager.validate of that order.
C4_RiskBeforeSubmit ==
    \A i \in DOMAIN tl_events :
        tl_events[i] \in {"oms.submit", "oms.modify"} =>
            \E j \in 1..(i - 1) : tl_events[j] = "risk.validate"

-----------------------------------------------------------------------------
(* ChatSession.run_turn: properties *)

\* What a trace did, step by step, without the outcomes
Steps(trace) ==
    [i \in DOMAIN trace |-> IF "call" \in DOMAIN trace[i] THEN <<trace[i].e, trace[i].call>>
                            ELSE <<trace[i].e>>]

\* The steps of executing the calls in order: the tool, the callback when
\* the caller gave one, the tool_result message
RECURSIVE Executions(_, _)
Executions(calls, observed) ==
    IF calls = <<>> THEN <<>>
    ELSE << <<"tool", Head(calls)>> >>
         \o (IF observed THEN << <<"callback", Head(calls)>> >> ELSE <<>>)
         \o << <<"message", Head(calls)>> >>
         \o Executions(Tail(calls), observed)

\* The tool_result messages of a history
ToolResults(messages) ==
    SelectSeq(messages, LAMBDA msg : msg.role = "user" /\ DOMAIN msg.text = {"tool_result"})

\* run_turn's preconditions hold: the LLM is configured and a symbol is allowed
Ready(session) == session.llm_ready /\ session.allowed_symbols # {}

\* The model answers a reply with tool calls and then a reply with none,
\* and the session has the two rounds this takes
TwoReplies(args) ==
    /\ Ready(args.session)
    /\ args.session.max_tool_rounds >= 2
    /\ Len(args.script) = 2
    /\ args.script[1].kind = "text" /\ ~args.script[1].blank
    /\ args.script[1].reply.tool_calls # <<>>
    /\ args.script[2].kind = "text" /\ ~args.script[2].blank
    /\ args.script[2].reply.tool_calls = <<>>

C22_ModelFailureReturned ==
    (fn_ret # Pending /\ Ready(fn_args.session)) =>
        /\ ~IsRaised(fn_ret.ret)
        /\ fn_ret.trace[Len(fn_ret.trace)] = [e |-> "oms.close"]
        /\ \A i \in DOMAIN fn_ret.trace :
              (fn_ret.trace[i].e = "model" /\ fn_ret.trace[i].raised) =>
                  /\ i = Len(fn_ret.trace) - 1
                  /\ fn_ret.ret = ChatModelReply("LLM request failed: error", <<>>)
                  /\ fn_ret.messages[Len(fn_ret.messages)] =
                        Message("assistant", [s |-> "LLM request failed: error"])

\* The model call of a later round failed, after a round whose tool call
\* placed an order
C22_Witness ==
    /\ fn_ret # Pending
    /\ Ready(fn_args.session)
    /\ Len(fn_ret.broker.orders) = 1
    /\ Len(fn_ret.trace) > 3
    /\ fn_ret.trace[Len(fn_ret.trace) - 1] = [e |-> "model", raised |-> TRUE]

\* The tool executions of a trace
ToolsRun(trace) == SelectSeq(trace, LAMBDA ev : ev.e = "tool")

\* C23: a tool call that fails does not end the turn: run_turn does not
\* raise; the calls of a reply are all executed, in order, whether or not
\* earlier ones failed; a failed call (a refused symbol or an unknown tool
\* among them) reaches the callback with ok = false and leaves a
\* tool_result message with ok = false and the error text.
C23_ToolFailureReported ==
    (fn_ret # Pending /\ Ready(fn_args.session)) =>
        LET trace == fn_ret.trace
            results == ToolResults(fn_ret.messages)
            first == IF fn_args.script = <<>> THEN Blank ELSE fn_args.script[1]
        IN  /\ ~IsRaised(fn_ret.ret)
            /\ (first.kind = "text" /\ fn_args.session.max_tool_rounds > 0) =>
                  /\ Len(ToolsRun(trace)) >= Len(first.reply.tool_calls)
                  /\ \A k \in DOMAIN first.reply.tool_calls :
                        ToolsRun(trace)[k].call = first.reply.tool_calls[k]
            /\ Len(results) = Len(ToolsRun(trace))
            /\ \A k \in DOMAIN results :
                  /\ results[k].text.tool_result.ok = ToolsRun(trace)[k].ok
                  /\ results[k].text.tool_result.ok = FALSE <=>
                        DOMAIN results[k].text.tool_result.result = {"error"}
                  /\ (\/ ToolsRun(trace)[k].call.name = "rm_rf"
                      \/ ToolsRun(trace)[k].call.args = PlaceTool("TSLA").args) =>
                        results[k].text.tool_result.result = [error |-> "ToolError"]
            /\ \A i \in DOMAIN trace :
                  (trace[i].e = "tool" /\ ~trace[i].ok) =>
                      /\ fn_args.session.on_tool_executed =>
                            trace[i + 1] = [e |-> "callback", call |-> trace[i].call, ok |-> FALSE]
                      /\ \E j \in {i + 1, i + 2} :
                            /\ j <= Len(trace)
                            /\ trace[j] = [e |-> "message", role |-> "user",
                                           call |-> trace[i].call, ok |-> FALSE]

\* A reply's first call was refused by the allow-list and its second call
\* then placed an order
C23_Witness ==
    /\ fn_ret # Pending
    /\ Ready(fn_args.session)
    /\ Len(ToolsRun(fn_ret.trace)) >= 2
    /\ ToolsRun(fn_ret.trace)[1].call.args = PlaceTool("TSLA").args
    /\ ~ToolsRun(fn_ret.trace)[1].ok
    /\ ToolsRun(fn_ret.trace)[2].ok
    /\ Len(fn_ret.broker.orders) >= 1

-----------------------------------------------------------------------------
(* The command line and its audit store: properties *)

\* C24: in a command that opens the audit store, a run started with
\* start_run is ended with end_run, and the store then closed, on every
\* way out of the command.
C24_RunEndedStoreClosed ==
    \A i \in DOMAIN cli_calls :
        cli_calls[i] = "store.start_run" =>
            \E j, k \in DOMAIN cli_calls :
                /\ i < j /\ j < k
                /\ cli_calls[j] = "store.end_run"
                /\ cli_calls[k] = "store.close"

\* C29: with dry_run in effect, place-order, modify-order, place-bracket,
\* cancel-order and paper-smoke call none of the broker's place_order,
\* modify_order, place_bracket_order and cancel_order.
C29_DryRunMutatesNothing ==
    (/\ cli_cmd \in {"place-order", "modify-order", "place-bracket", "cancel-order", "paper-smoke"}
     /\ cli_cfg.dry_run) =>
        \A i \in DOMAIN cli_calls :
            cli_calls[i] \notin {"broker.place_order", "broker.modify_order",
                                 "broker.place_bracket_order", "broker.cancel_order"}

-----------------------------------------------------------------------------
(* BacktestBroker, cash and position: properties *)

\* The sum of amount[oid] over the orders in oids
RECURSIVE Total(_, _)
Total(oids, amount) ==
    IF oids = {} THEN 0
    ELSE LET oid == CHOOSE o \in oids : TRUE
         IN  amount[oid] + Total(oids \ {oid}, amount)

\* C30: a step() changes cash by -(sign * p * q) - commission_per_order for
\* each order it fills (side sign, quantity q, fill price p after slippage)
\* and the position by sign * q for each; place_order, modify_order,
\* cancel_order and place_bracket_order - and every other call on a connected
\* broker - leave cash, position and average cost as they were.
C30_CashMovesInStep ==
    [][/\ bt_ret'.op = "step" =>
            LET filled == bt_open \ bt_open'
                cost == [oid \in filled |->
                            Sign(bt_orders[oid].side) * Val(bt_statuses'[oid].avg_fill_price)
                                * bt_orders[oid].quantity
                            + bt_fill_model.commission_per_order]
                delta == [oid \in filled |-> Sign(bt_orders[oid].side) * bt_orders[oid].quantity]
            IN  /\ bt_cash' = bt_cash - Total(filled, cost)
                /\ bt_qty' = bt_qty + Total(filled, delta)
                /\ \A oid \in filled : bt_statuses'[oid].status = "Filled"
       /\ bt_ret'.op \notin {"step", "connect", "BacktestBroker"} =>
            /\ bt_cash' = bt_cash
            /\ bt_qty' = bt_qty
            /\ bt_avg_cost' = bt_avg_cost
    ]_vars

\* A step has filled a SELL order under a commission: the position is short
\* and the cash is the initial cash plus the proceeds less the commission
C30_Witness ==
    /\ bt_ret.op = "step"
    /\ bt_fill_model.commission_per_order = 1
    /\ bt_qty < 0
    /\ \E oid \in DOMAIN bt_orders :
          /\ bt_statuses[oid].status = "Filled"
          /\ upper(bt_orders[oid].side) = "SELL"
          /\ bt_cash = initial_cash + Val(bt_statuses[oid].avg_fill_price) * bt_orders[oid].quantity - 1

-----------------------------------------------------------------------------
(* BacktestBroker._apply_fill: properties *)

\* The fill is against the position: the position is not flat and the fill
\* is on the other side
Against(b, side) == (b.qty > 0 /\ Sign(side) < 0) \/ (b.qty < 0 /\ Sign(side) > 0)

\* C31: after a fill that reduces the position or flips it across flat the
\* average cost is absent exactly when the resulting quantity is zero and is
\* otherwise the average cost before the fill, also when the position has
\* changed sign; after a fill from flat it is the fill price.
C31_AverageCostOnReduction ==
    fn_ret # Pending =>
        /\ Against(fn_args.b, fn_args.side) =>
              /\ fn_ret.avg_cost = Nil <=> fn_ret.qty = 0
              /\ fn_ret.qty # 0 => fn_ret.avg_cost = fn_args.b.avg_cost
        /\ fn_args.b.qty = 0 => fn_ret.avg_cost = <<fn_args.price, 1>>

\* C31 witness: a long position of 1 at an average cost of 250.5 met a SELL
\* of 2 and is short 1 at the same average cost
C31_Witness ==
    /\ fn_ret # Pending
    /\ fn_args.b.qty = 1
    /\ fn_args.b.avg_cost = <<501, 2>>
    /\ fn_args.side = "sell"
    /\ fn_args.qty = 2
    /\ fn_ret.qty = -1
    /\ fn_ret.avg_cost = <<501, 2>>

-----------------------------------------------------------------------------
(* BacktestBroker, the order book: properties *)

\* C32: an order id is filled at most once: a Filled or Cancelled order is
\* not among the open ones, an order that has left the open ones never
\* returns to them - not by a later modify_order either - and a step()
\* fills open orders only: it leaves the status of every other order as it
\* was and moves the position by the orders that left the open ones.
C32_AtMostOneFill ==
    [][/\ \A oid \in DOMAIN bt_statuses :
             bt_statuses[oid].status \in {"Filled", "Cancelled"} => oid \notin bt_open
       /\ \A oid \in DOMAIN bt_orders : oid \notin bt_open => oid \notin bt_open'
       /\ bt_ret'.op = "step" =>
             LET filled == bt_open \ bt_open'
                 delta == [oid \in filled |-> Sign(bt_orders[oid].side) * bt_orders[oid].quantity]
             IN  /\ bt_qty' = bt_qty + Total(filled, delta)
                 /\ \A oid \in DOMAIN bt_orders \ bt_open : bt_statuses'[oid] = bt_statuses[oid]
    ]_vars

\* C32 witness: the order was filled as a BUY of 1, then modified into a
\* SELL of 2 at market, and the step after that left it and the position of
\* 1 alone
C32_Witness ==
    /\ bt_ret.op = "step"
    /\ BtId(1) \in DOMAIN bt_orders
    /\ bt_statuses[BtId(1)].status = "Filled"
    /\ bt_statuses[BtId(1)].filled = Some(1)
    /\ upper(bt_orders[BtId(1)].side) = "SELL"
    /\ bt_orders[BtId(1)].quantity = 2
    /\ bt_qty = 1
    /\ bt_open = {}

\* C33: the position is the sum, over the known orders, of the sign of the
\* side of the order's stored request times the filled quantity of its
\* status.
C33_PositionReconciled ==
    bt_qty = Total(DOMAIN bt_orders,
                   [oid \in DOMAIN bt_orders |->
                       Sign(bt_orders[oid].side) * Val(bt_statuses[oid].filled)])

\* The request of a bracket leg: order type, side, limit and stop price
Leg(req, order_type, side, limit_price, stop_price) ==
    /\ req.order_type = order_type
    /\ req.side = side
    /\ req.limit_price = limit_price
    /\ req.stop_price = stop_price

\* C39: a place_bracket_order that returns has added exactly three orders,
\* all open and Submitted and of the requested quantity: the entry LMT on the
\* requested side at the entry price, the take-profit LMT and the stop-loss
\* STP on the other side.  The orders are not linked: a modify_order or
\* cancel_order leaves the request, the status and the openness of every
\* order it does not name as they were, and a step() fills an open order
\* exactly when the bar fills that order's own request and leaves the status
\* of every order it does not fill as it was.
C39_BracketLegsIndependent ==
    [][/\ (bt_ret'.op = "place_bracket_order" /\ ~IsRaised(bt_ret'.result)) =>
             LET res == bt_ret'.result
                 br == bt_ret'.req
                 entry == upper(strip(br.side))
                 exit == IF entry = "BUY" THEN "SELL" ELSE "BUY"
                 ids == {res.parent_order_id, res.take_profit_order_id, res.stop_loss_order_id}
             IN  /\ Cardinality(ids) = 3
                 /\ DOMAIN bt_orders' \ DOMAIN bt_orders = ids
                 /\ bt_open' = bt_open \cup ids
                 /\ \A oid \in ids :
                       /\ bt_orders'[oid].quantity = br.quantity
                       /\ bt_statuses'[oid].status = "Submitted"
                 /\ Leg(bt_orders'[res.parent_order_id], "LMT", entry, br.entry_limit_price, Nil)
                 /\ Leg(bt_orders'[res.take_profit_order_id], "LMT", exit,
                        br.take_profit_limit_price, Nil)
                 /\ Leg(bt_orders'[res.stop_loss_order_id], "STP", exit, Nil,
                        br.stop_loss_stop_price)
       /\ bt_ret'.op \in {"modify_order", "cancel_order"} =>
             \A oid \in DOMAIN bt_orders \ {bt_ret'.order_id} :
                 /\ bt_orders'[oid] = bt_orders[oid]
                 /\ bt_statuses'[oid] = bt_statuses[oid]
                 /\ oid \in bt_open' <=> oid \in bt_open
       /\ (bt_ret'.op = "step" /\ bt_connected /\ bt_i < Len(BtBars)) =>
             \A oid \in bt_open :
                 /\ oid \notin bt_open' <=> _try_fill(bt_orders[oid], BtBars[bt_i + 1]) # Nil
                 /\ oid \in bt_open' => bt_statuses'[oid] = bt_statuses[oid]
    ]_vars

\* C40: a place_bracket_order that raises has added no order: the orders,
\* the statuses and the open set are as they were before the call.
C40_BracketAllOrNothing ==
    [][(bt_ret'.op = "place_bracket_order" /\ IsRaised(bt_ret'.result)) =>
          /\ bt_orders' = bt_orders
          /\ bt_statuses' = bt_statuses
          /\ bt_open' = bt_open
    ]_vars

-----------------------------------------------------------------------------
(* ChatSession.run_turn, the round limit: properties *)

\* The model calls of a trace, one for each round
ModelCalls(trace) == SelectSeq(trace, LAMBDA ev : ev.e = "model")

\* The session neither streams nor searches: round k gets the k-th outcome
\* of the script
Plain(session) == ~session.use_search /\ ~session.stream

\* The k-th outcome of the client
Answer(script, k) == IF k <= Len(script) THEN script[k] ELSE Text(ChatModelReply("", <<>>))

\* The tool calls of an outcome
ToolCallsOf(answer) == IF answer.kind = "fails" THEN <<>> ELSE answer.reply.tool_calls

\* The steps of rounds k..last: the model call and then its tool calls
RECURSIVE Rounds(_, _, _, _)
Rounds(script, k, last, observed) ==
    IF k > last THEN <<>>
    ELSE << <<"model">> >> \o Executions(ToolCallsOf(Answer(script, k)), observed)
         \o Rounds(script, k + 1, last, observed)

\* C34: run_turn ends within max_tool_rounds rounds whatever the model
\* answers: it calls the model (and parses a reply) at most max_tool_rounds
\* times; the first reply without tool calls is returned at once, nothing
\* being executed after it; when every round's reply has tool calls, the
\* turn ends after round max_tool_rounds, that reply's calls executed, and
\* returns that reply; with max_tool_rounds = 0 it calls nothing and
\* returns the empty reply.
C34_RoundsBounded ==
    (fn_ret # Pending /\ Ready(fn_args.session)) =>
        LET session == fn_args.session
            script == fn_args.script
            n == session.max_tool_rounds
            trace == fn_ret.trace
            stops == {k \in 1..n : ToolCallsOf(Answer(script, k)) = <<>>}
            last == IF stops = {} THEN n ELSE CHOOSE k \in stops : \A j \in stops : k <= j
        IN  /\ Len(ModelCalls(trace)) <= n
            /\ n = 0 =>
                  /\ fn_ret.ret = ChatModelReply("", <<>>)
                  /\ Steps(trace) = << <<"OrderManager">>, <<"oms.close">> >>
                  /\ fn_ret.broker = session.broker
            /\ (ToolsRun(trace) # <<>> /\ trace[Len(trace) - 1].e # "model") =>
                  /\ Len(ModelCalls(trace)) = n
                  /\ fn_ret.ret = fn_ret.last_reply
                  /\ fn_ret.ret.tool_calls # <<>>
            /\ Plain(session) =>
                  /\ Len(ModelCalls(trace)) = last
                  /\ Steps(trace) = << <<"OrderManager">> >>
                                    \o Rounds(script, 1, last, session.on_tool_executed)
                                    \o << <<"oms.close">> >>
                  /\ last > 0 =>
                        fn_ret.ret = IF Answer(script, last).kind = "fails"
                                     THEN ChatModelReply("LLM request failed: error", <<>>)
                                     ELSE Answer(script, last).reply

\* A session of two rounds whose model asked for tools three times over: the
\* turn ended after the second reply's calls and returned that reply
C34_Witness ==
    /\ fn_ret # Pending
    /\ Ready(fn_args.session)
    /\ fn_args.session.max_tool_rounds = 2
    /\ Len(fn_args.script) = 3
    /\ \A k \in 1..3 : ToolCallsOf(fn_args.script[k]) # <<>>
    /\ Len(ModelCalls(fn_ret.trace)) = 2
    /\ fn_ret.ret = fn_args.script[2].reply
    /\ Len(ToolsRun(fn_ret.trace)) =
          Len(fn_args.script[1].reply.tool_calls) + Len(fn_args.script[2].reply.tool_calls)

-----------------------------------------------------------------------------
(* ChatSession._call_model: properties *)

\* The calls of one method among the client calls
CallsOf(calls, method) == SelectSeq(calls, LAMBDA call : call.method = method)

\* C35: one _call_model calls the client first with the configured
\* grounding, by generate or, when streaming, by stream_generate.  It calls
\* the same method a second time exactly when the first call failed and
\* grounding was enabled, and then with grounding disabled; with grounding
\* disabled a failed call is raised after that one call.  When streaming, a
\* blank streamed text is followed by exactly one generate call, the last
\* call, whose outcome is the result; nothing else is called.  So there are
\* at most 2 client calls when not streaming and at most 3 when streaming.
C35_CallModelRetries ==
    (fn_ret # Pending) =>
        LET calls == fn_ret.calls
            script == fn_args.script
            method == IF fn_args.stream THEN "stream_generate" ELSE "generate"
            again == fn_args.use_search /\ Answer(script, 1).kind = "fails"
            tries == IF again THEN 2 ELSE 1
            tried == Answer(script, tries)
            fell == fn_args.stream /\ tried.kind = "text" /\ tried.blank
            total == IF fell THEN tries + 1 ELSE tries
        IN  /\ Len(calls) = total
            /\ Len(calls) <= (IF fn_args.stream THEN 3 ELSE 2)
            /\ calls[1] = ClientCall(method, fn_args.use_search)
            /\ again => calls[2] = ClientCall(method, FALSE)
            /\ fell => calls[total] = ClientCall("generate", fn_args.use_search)
            /\ IsRaised(fn_ret.raw) <=> Answer(script, total).kind = "fails"
            /\ ~IsRaised(fn_ret.raw) => fn_ret.raw = Answer(script, total)
            /\ (~fn_args.use_search /\ Answer(script, 1).kind = "fails") =>
                  IsRaised(fn_ret.raw) /\ Len(calls) = 1
            /\ fn_ret.script = SubSeq(script, total + 1, Len(script))

\* A streaming call with grounding: the stream failed, the stream without
\* grounding was blank, and generate answered
C35_Witness ==
    /\ fn_ret # Pending
    /\ fn_args.stream /\ fn_args.use_search
    /\ Len(fn_args.script) = 3
    /\ fn_args.script[1] = Fails /\ fn_args.script[2] = Blank
    /\ fn_ret.calls = << ClientCall("stream_generate", TRUE),
                         ClientCall("stream_generate", FALSE),
                         ClientCall("generate", TRUE) >>
    /\ fn_ret.raw = fn_args.script[3]
    /\ fn_ret.raw.kind = "text"

-----------------------------------------------------------------------------
(* export_historical_bars, the calls it makes: properties *)

\* C36: export_historical_bars makes at most max_calls calls of
\* get_historical_bars; a call that returns no bars is the last one, and the
\* export stops short of max_calls calls only after such a call; the bars
\* returned have ascending, distinct timestamps.  Against a SimBroker, which
\* returns its whole series at every call whatever end_datetime says, it
\* makes exactly max_calls calls when the series is not empty and returns
\* each bar of the series once.
C36_CallsBounded ==
    (fn_ret # Pending) =>
        LET asked == fn_ret.asked
            calls == Len(asked)
            bars == fn_ret.bars
            chunk(k) == get_historical_bars(fn_args.broker, fn_args.source, asked[k], fn_args.p)
        IN  /\ calls <= fn_args.max_calls
            /\ \A k \in 1..calls : chunk(k) = <<>> => k = calls
            /\ calls < fn_args.max_calls => (calls > 0 /\ chunk(calls) = <<>>)
            /\ \A i, j \in 1..Len(bars) :
                  i < j => bars[i].timestamp_epoch_s < bars[j].timestamp_epoch_s
            /\ \A i \in 1..Len(bars) : \E k \in 1..Len(fn_args.source) : bars[i] = fn_args.source[k]
            /\ (fn_args.broker = "SimBroker" /\ fn_args.source # <<>>) =>
                  /\ calls = fn_args.max_calls
                  /\ fn_args.max_calls > 0 => bars = fn_args.source

\* A SimBroker returned the same three bars at each of MaxCalls calls, and
\* the export returned the three
C36_Witness ==
    /\ fn_ret # Pending
    /\ fn_args.broker = "SimBroker"
    /\ Len(fn_args.source) = 3
    /\ fn_args.max_calls = MaxCalls
    /\ Len(fn_ret.asked) = MaxCalls
    /\ fn_ret.asked[2] = fn_ret.asked[MaxCalls]
    /\ fn_ret.bars = fn_args.source

-----------------------------------------------------------------------------
(* run_backtest, the ticks and the decisions: properties *)

\* C37: a run over N >= 1 bars calls on_tick exactly N times, and the k-th
\* call is shown the k-th bar: ctx.now_epoch_s is its timestamp, and the
\* snapshot the context fetches carries its close and its timestamp.
C37_EveryBarOnce ==
    (fn_ret # Pending) =>
        /\ fn_ret.ticks = Len(fn_args.bars)
        /\ Len(fn_ret.contexts) = Len(fn_args.bars)
        /\ \A k \in 1..Len(fn_args.bars) :
              /\ fn_ret.contexts[k].now_epoch_s = fn_args.bars[k].timestamp_epoch_s
              /\ fn_ret.contexts[k].snapshot.timestamp_epoch_s = fn_args.bars[k].timestamp_epoch_s
              /\ fn_ret.contexts[k].snapshot.last = fn_args.bars[k].close

\* The intents of a run, tick after tick
RECURSIVE IntentsFrom(_, _)
IntentsFrom(strategy, n) ==
    IF n > Len(strategy) THEN <<>> ELSE strategy[n] \o IntentsFrom(strategy, n + 1)

\* C38: a run logs exactly one decision for each intent the strategy emits,
\* in the order of the intents: accepted = true when the order was
\* submitted, accepted = false when risk validation or the submission
\* failed.
C38_OneDecisionPerIntent ==
    (fn_ret # Pending) =>
        LET intents == IntentsFrom(fn_args.strategy, 1)
        IN  /\ Len(fn_ret.decisions) = Len(intents)
            /\ \A k \in 1..Len(intents) :
                  /\ fn_ret.decisions[k].intent = intents[k]
                  /\ fn_ret.decisions[k].accepted <=> RunFailure(intents[k], fn_args) = "none"

====
